---- MODULE Spec2Model ----
(***************************************************************************)
(* Decision framework of the strategy-development workflow:                *)
(*   SCRIPTS/decision_logic.py  evaluate_backtest, evaluate_optimization,  *)
(*                              evaluate_validation, route_decision        *)
(*   SCRIPTS/decision_cli.py    evaluate-optimization command              *)
(*   SCRIPTS/qc_api.py          wait_for_backtest, wait_for_optimization   *)
(* and the run of the workflow whose caller applies the routing results.   *)
(*                                                                         *)
(* Numbers.  Every ratio of the program (Sharpe ratio, drawdown, win rate, *)
(* improvement, degradation, robustness, sensitivity) is a float; the      *)
(* model counts them in hundredths, so 0.5 is 50 and 3.0 is 300.  Trade    *)
(* counts and iteration numbers are plain integers.                        *)
(*                                                                         *)
(* A float may also be NaN: the statistics of a backtest are read with     *)
(* float(), which accepts "NaN", and every ordered comparison with NaN is  *)
(* False.  NaN is coded as an integer no metric takes, and the comparisons *)
(* of evaluate_backtest are the operators Lt, Gt, Le, Ge below.            *)
(*                                                                         *)
(* Dictionaries are functions from strings; d.get(k, default) is Get.      *)
(* An f-string is the tuple of its literal parts and formatted values.     *)
(***************************************************************************)
EXTENDS Integers, Sequences, FiniteSets, TLC

VARIABLES pc, fn, args, result, run, poll

vars == <<pc, fn, args, result, run, poll>>

(***************************************************************************)
(* Bounds of the model.                                                    *)
(***************************************************************************)
\* metrics are drawn within Margin hundredths (or trades) of each threshold
Margin == 1
\* iteration and max_iterations range over 0..MaxIteration
MaxIteration == 4
\* a metrics record with missing fields has at most MaxFields fields
MaxFields == 2
\* the routing steps of a workflow run are counted up to MaxSteps
MaxSteps == 4
\* the timeout of a polling call ranges over 0..MaxTimeout seconds, its
\* poll_interval over 1..MaxPollInterval seconds, and a status read takes
\* 0..MaxLatency seconds
MaxTimeout == 3
MaxPollInterval == 2
MaxLatency == 1
\* the out-of-sample Sharpe ratio of a validation run ranges over
\* -MaxSharpe..MaxSharpe hundredths
MaxSharpe == 120

(***************************************************************************)
(* Python dictionaries.                                                    *)
(***************************************************************************)
EmptyDict == [k \in {} |-> 0]

Get(d, k, default) == IF k \in DOMAIN d THEN d[k] ELSE default

\* d after the item assignments of e (d[k] = e[k] for every key of e)
Upd(d, e) == [k \in (DOMAIN d) \cup (DOMAIN e) |-> IF k \in DOMAIN e THEN e[k] ELSE d[k]]

(***************************************************************************)
(* Python floats: the ordered comparisons, False whenever an operand is    *)
(* NaN.                                                                    *)
(***************************************************************************)
NaN == 0 - 1000000

IsNaN(x) == x = NaN

Lt(a, b) == ~IsNaN(a) /\ ~IsNaN(b) /\ a < b
Gt(a, b) == ~IsNaN(a) /\ ~IsNaN(b) /\ a > b
Le(a, b) == ~IsNaN(a) /\ ~IsNaN(b) /\ a <= b
Ge(a, b) == ~IsNaN(a) /\ ~IsNaN(b) /\ a >= b

(***************************************************************************)
(* evaluate_backtest: the fall-back values of the threshold lookups.       *)
(***************************************************************************)
DefaultTooPerfectSharpe == 300
DefaultTooFewTrades == 20
DefaultWinRateTooHigh == 75
DefaultMinSharpe == 50
DefaultMinMaxDrawdown == 40
DefaultMinTrades == 30
DefaultProdSharpe == 100
DefaultProdMaxDrawdown == 30
DefaultProdTrades == 100
DefaultProdWinRate == 40
DefaultOptSharpe == 70
DefaultOptMaxDrawdown == 35
DefaultOptTrades == 50

\* thresholds.get(tier, {}).get(key, default)
Threshold(thresholds, tier, key, default) == Get(Get(thresholds, tier, EmptyDict), key, default)

too_perfect_sharpe(th) == Threshold(th, "overfitting_signals", "too_perfect_sharpe", DefaultTooPerfectSharpe)
too_few_trades(th) == Threshold(th, "overfitting_signals", "too_few_trades", DefaultTooFewTrades)
win_rate_too_high(th) == Threshold(th, "overfitting_signals", "win_rate_too_high", DefaultWinRateTooHigh)
min_sharpe(th) == Threshold(th, "minimum_viable", "sharpe_ratio", DefaultMinSharpe)
\* the fall-back value of another tier
max_dd_threshold_wrong_default(th) == Threshold(th, "minimum_viable", "max_drawdown", DefaultProdMaxDrawdown)
max_dd_threshold(th) == Threshold(th, "minimum_viable", "max_drawdown", DefaultMinMaxDrawdown)
min_trades(th) == Threshold(th, "minimum_viable", "min_trades", DefaultMinTrades)
prod_sharpe(th) == Threshold(th, "production_ready", "sharpe_ratio", DefaultProdSharpe)
prod_dd(th) == Threshold(th, "production_ready", "max_drawdown", DefaultProdMaxDrawdown)
prod_trades(th) == Threshold(th, "production_ready", "min_trades", DefaultProdTrades)
prod_win_rate(th) == Threshold(th, "production_ready", "win_rate", DefaultProdWinRate)
opt_sharpe(th) == Threshold(th, "optimization_worthy", "sharpe_ratio", DefaultOptSharpe)
opt_dd(th) == Threshold(th, "optimization_worthy", "max_drawdown", DefaultOptMaxDrawdown)
opt_trades(th) == Threshold(th, "optimization_worthy", "min_trades", DefaultOptTrades)

(***************************************************************************)
(* The conditions of evaluate_backtest, one per `if` of the function.      *)
(***************************************************************************)
\* TIER 1: overfitting signals
\* the comparison made inclusive
sharpe_too_perfect_inclusive(sharpe, th) == Ge(sharpe, too_perfect_sharpe(th))
sharpe_too_perfect(sharpe, th) == Gt(sharpe, too_perfect_sharpe(th))
\* a record without trades counted as having too few
trades_too_few_zero_included(total_trades, th) ==
  Le(0, total_trades) /\ Lt(total_trades, too_few_trades(th))
trades_too_few(total_trades, th) == Lt(0, total_trades) /\ Lt(total_trades, too_few_trades(th))
win_rate_suspicious(win_rate, th) == Gt(win_rate, win_rate_too_high(th))

\* TIER 2: minimum viable
\* the comparison made inclusive
sharpe_too_low_inclusive(sharpe, th) == Le(sharpe, min_sharpe(th))
sharpe_too_low(sharpe, th) == Lt(sharpe, min_sharpe(th))
\* the drawdown compared with the production_ready limit instead of minimum_viable
drawdown_too_high_wrong_tier(max_dd, th) == Gt(max_dd, prod_dd(th))
drawdown_too_high(max_dd, th) == Gt(max_dd, max_dd_threshold(th))
trades_insufficient(total_trades, th) == Lt(total_trades, min_trades(th))

\* TIER 3: production ready
\* the win-rate condition left out
meets_production_ready_no_win_rate(sharpe, max_dd, total_trades, win_rate, th) ==
  /\ Ge(sharpe, prod_sharpe(th))
  /\ Le(max_dd, prod_dd(th))
  /\ Ge(total_trades, prod_trades(th))

\* the Sharpe comparison reversed
meets_production_ready_sharpe_reversed(sharpe, max_dd, total_trades, win_rate, th) ==
  /\ Le(sharpe, prod_sharpe(th))
  /\ Le(max_dd, prod_dd(th))
  /\ Ge(total_trades, prod_trades(th))
  /\ Ge(win_rate, prod_win_rate(th))

meets_production_ready(sharpe, max_dd, total_trades, win_rate, th) ==
  /\ Ge(sharpe, prod_sharpe(th))
  /\ Le(max_dd, prod_dd(th))
  /\ Ge(total_trades, prod_trades(th))
  /\ Ge(win_rate, prod_win_rate(th))

\* TIER 4: optimization worthy
\* the drawdown condition left out
meets_optimization_worthy_no_drawdown(sharpe, max_dd, total_trades, th) ==
  /\ Ge(sharpe, opt_sharpe(th))
  /\ Ge(total_trades, opt_trades(th))

meets_optimization_worthy(sharpe, max_dd, total_trades, th) ==
  /\ Ge(sharpe, opt_sharpe(th))
  /\ Le(max_dd, opt_dd(th))
  /\ Ge(total_trades, opt_trades(th))

\* TIER 5: marginal
\* the Sharpe comparison made strict
is_marginal_strict(sharpe, total_trades, th) ==
  Gt(sharpe, min_sharpe(th)) /\ Ge(total_trades, min_trades(th))

\* the Sharpe ratio compared with the optimization_worthy threshold
is_marginal_wrong_tier(sharpe, total_trades, th) ==
  Ge(sharpe, opt_sharpe(th)) /\ Ge(total_trades, min_trades(th))

is_marginal(sharpe, total_trades, th) ==
  Ge(sharpe, min_sharpe(th)) /\ Ge(total_trades, min_trades(th))

\* details["checks_performed"].append(tier)
\* the list started again at every tier
append_check_replacing(details, tier) == Upd(details, [checks_performed |-> <<tier>>])

append_check(details, tier) ==
  Upd(details, [checks_performed |-> Append(details.checks_performed, tier)])

(***************************************************************************)
(* evaluate_backtest(performance, thresholds) -> (decision, reason,        *)
(* details).  The tiers are tried in the order of the code; each IF is one *)
(* `if ...: return` of the function.                                       *)
(***************************************************************************)
evaluate_backtest(performance, thresholds) ==
  LET sharpe == Get(performance, "sharpe_ratio", 0)
      max_dd == Get(performance, "max_drawdown", 0)
      total_trades == Get(performance, "total_trades", 0)
      win_rate == Get(performance, "win_rate", 0)
      total_return == Get(performance, "total_return", 0)
      th == thresholds
      details0 == [sharpe_ratio |-> sharpe, max_drawdown |-> max_dd,
                   total_trades |-> total_trades, win_rate |-> win_rate,
                   total_return |-> total_return, checks_performed |-> <<>>]
      \* the details on entering each tier
      details1 == append_check(details0, "overfitting_signals")
      details2 == append_check(Upd(details1, [overfitting_detected |-> FALSE]),
                               "minimum_viable")
      details3 == append_check(details2, "production_ready")
      details4 == append_check(details3, "optimization_worthy")
  IN  IF sharpe_too_perfect(sharpe, th) THEN
        [decision |-> "ESCALATE_TO_HUMAN",
         reason |-> <<"Sharpe ratio too perfect (", sharpe, " > ", too_perfect_sharpe(th),
                      "), possible overfitting">>,
         details |-> Upd(details1, [overfitting_detected |-> TRUE,
                      overfitting_reason |-> <<"Sharpe ratio too perfect (", sharpe, " > ",
                                               too_perfect_sharpe(th), ")">>])]
      ELSE IF trades_too_few(total_trades, th) THEN
        [decision |-> "ESCALATE_TO_HUMAN",
         reason |-> <<"Too few trades (", total_trades, " < ", too_few_trades(th),
                      "), unreliable statistics">>,
         details |-> Upd(details1, [overfitting_detected |-> TRUE,
                      overfitting_reason |-> <<"Too few trades (", total_trades, " < ",
                                               too_few_trades(th), ")">>])]
      ELSE IF win_rate_suspicious(win_rate, th) THEN
        [decision |-> "ESCALATE_TO_HUMAN",
         reason |-> <<"Win rate suspiciously high (", win_rate, " > ", win_rate_too_high(th),
                      "), possible overfitting">>,
         details |-> Upd(details1, [overfitting_detected |-> TRUE,
                      overfitting_reason |-> <<"Win rate suspiciously high (", win_rate, " > ",
                                               win_rate_too_high(th), ")">>])]
      \* TIER 2
      ELSE IF sharpe_too_low(sharpe, th) THEN
        [decision |-> "ABANDON_HYPOTHESIS",
         reason |-> <<"Sharpe ratio below minimum viable (", sharpe, " < ", min_sharpe(th), ")">>,
         details |-> Upd(details2, [abandon_reason |->
                      <<"Sharpe below minimum viable (", sharpe, " < ", min_sharpe(th), ")">>])]
      ELSE IF drawdown_too_high(max_dd, th) THEN
        [decision |-> "ABANDON_HYPOTHESIS",
         reason |-> <<"Max drawdown too high (", max_dd, " > ", max_dd_threshold(th), ")">>,
         details |-> Upd(details2, [abandon_reason |->
                      <<"Max drawdown too high (", max_dd, " > ", max_dd_threshold(th), ")">>])]
      ELSE IF trades_insufficient(total_trades, th) THEN
        [decision |-> "ABANDON_HYPOTHESIS",
         reason |-> <<"Insufficient trades for statistical significance (", total_trades,
                      " < ", min_trades(th), ")">>,
         details |-> Upd(details2, [abandon_reason |->
                      <<"Insufficient trades (", total_trades, " < ", min_trades(th), ")">>])]
      \* TIER 3
      ELSE IF meets_production_ready(sharpe, max_dd, total_trades, win_rate, th) THEN
        [decision |-> "PROCEED_TO_VALIDATION",
         reason |-> <<"Strong baseline performance (Sharpe ", sharpe, ", DD ", max_dd, ", ",
                      total_trades, " trades), ready for validation">>,
         details |-> Upd(details3, [tier |-> "production_ready", skip_optimization |-> TRUE])]
      \* TIER 4
      ELSE IF meets_optimization_worthy(sharpe, max_dd, total_trades, th) THEN
        [decision |-> "PROCEED_TO_OPTIMIZATION",
         reason |-> <<"Decent performance (Sharpe ", sharpe, ", DD ", max_dd, ", ",
                      total_trades, " trades), worth optimizing parameters">>,
         details |-> Upd(details4, [tier |-> "optimization_worthy"])]
      \* TIER 5
      ELSE IF is_marginal(sharpe, total_trades, th) THEN
        [decision |-> "PROCEED_TO_OPTIMIZATION",
         reason |-> <<"Marginal performance (Sharpe ", sharpe,
                      "), attempting optimization to improve">>,
         details |-> Upd(details4, [tier |-> "marginal"])]
      \* Fallback
      ELSE
        [decision |-> "ABANDON_HYPOTHESIS",
         reason |-> <<"Performance does not meet criteria for proceeding">>,
         details |-> Upd(details4, [abandon_reason |->
                      <<"Performance does not meet any criteria">>])]

(***************************************************************************)
(* Inputs of evaluate_backtest.                                            *)
(***************************************************************************)
\* the thresholds of the docstring and of the module's self-test
DocumentedThresholds ==
  [minimum_viable |-> [sharpe_ratio |-> 50, max_drawdown |-> 40, min_trades |-> 30],
   optimization_worthy |-> [sharpe_ratio |-> 70, max_drawdown |-> 35, min_trades |-> 50],
   production_ready |-> [sharpe_ratio |-> 100, max_drawdown |-> 30, min_trades |-> 100,
                         win_rate |-> 40],
   overfitting_signals |-> [too_perfect_sharpe |-> 300, too_few_trades |-> 20,
                            win_rate_too_high |-> 75]]

\* a partial configuration: a missing tier and missing keys
PartialThresholds ==
  [minimum_viable |-> [sharpe_ratio |-> 60, min_trades |-> 25],
   production_ready |-> [sharpe_ratio |-> 120, max_drawdown |-> 20, min_trades |-> 60],
   overfitting_signals |-> [too_perfect_sharpe |-> 250]]

\* a configuration whose tiers are not nested: production_ready is looser than
\* optimization_worthy and, for the drawdown, than minimum_viable, and the
\* overfitting signals cut into the tiers
CrossedThresholds ==
  [minimum_viable |-> [sharpe_ratio |-> 50, max_drawdown |-> 30, min_trades |-> 30],
   optimization_worthy |-> [sharpe_ratio |-> 90, max_drawdown |-> 25, min_trades |-> 60],
   production_ready |-> [sharpe_ratio |-> 70, max_drawdown |-> 35, min_trades |-> 40,
                         win_rate |-> 45],
   overfitting_signals |-> [too_perfect_sharpe |-> 80, too_few_trades |-> 35,
                            win_rate_too_high |-> 50]]

ThresholdConfigs == <<DocumentedThresholds, PartialThresholds, CrossedThresholds>>

\* the values within m of a value of S
Within(S, m) == UNION {{t + i : i \in (0 - m)..m} : t \in S}

Near(S) == Within(S, Margin)

\* the metrics within m of the thresholds they are compared with
SharpeWithin(th, m) ==
  {0, NaN} \cup Within({too_perfect_sharpe(th), min_sharpe(th), prod_sharpe(th), opt_sharpe(th)}, m)
DrawdownWithin(th, m) == {0} \cup Within({max_dd_threshold(th), prod_dd(th), opt_dd(th)}, m)
TradesWithin(th, m) ==
  {0} \cup Within({too_few_trades(th), min_trades(th), prod_trades(th), opt_trades(th)}, m)
WinRateWithin(th, m) == {0} \cup Within({win_rate_too_high(th), prod_win_rate(th)}, m)

SharpeValues(th) == SharpeWithin(th, Margin)
DrawdownValues(th) == DrawdownWithin(th, Margin)
TradesValues(th) == TradesWithin(th, Margin)
WinRateValues(th) == WinRateWithin(th, Margin)

(***************************************************************************)
(* evaluate_optimization(baseline_sharpe, optimized_sharpe,                *)
(* improvement_pct, thresholds) of decision_logic.py.                      *)
(***************************************************************************)
MinimalImprovement == 5
ExcessiveImprovement == 30

\* the conditions of evaluate_optimization, one per `if`
performance_degraded(improvement_pct) == improvement_pct < 0
minimal_improvement(improvement_pct) == improvement_pct < MinimalImprovement
\* the comparison made inclusive
excessive_improvement_inclusive(improvement_pct) == improvement_pct >= ExcessiveImprovement
excessive_improvement(improvement_pct) == improvement_pct > ExcessiveImprovement

evaluate_optimization(baseline_sharpe, optimized_sharpe, improvement_pct, thresholds) ==
  LET details == [baseline_sharpe |-> baseline_sharpe,
                  optimized_sharpe |-> optimized_sharpe,
                  improvement_pct |-> improvement_pct]
  IN  IF performance_degraded(improvement_pct) THEN
        [decision |-> "USE_BASELINE_PARAMS",
         reason |-> <<"Optimization degraded performance (", improvement_pct,
                      "), use baseline parameters">>,
         details |-> Upd(details, [degraded |-> TRUE])]
      ELSE IF minimal_improvement(improvement_pct) THEN
        [decision |-> "USE_BASELINE_PARAMS",
         reason |-> <<"Minimal improvement (", improvement_pct, "), use baseline parameters">>,
         details |-> Upd(details, [minimal_improvement |-> TRUE])]
      ELSE IF excessive_improvement(improvement_pct) THEN
        [decision |-> "ESCALATE_TO_HUMAN",
         reason |-> <<"Excessive improvement (", improvement_pct,
                      "), high overfitting risk - needs manual review">>,
         details |-> Upd(details, [overfitting_risk |-> TRUE])]
      ELSE
        [decision |-> "PROCEED_TO_VALIDATION",
         reason |-> <<"Reasonable improvement (", improvement_pct,
                      "), proceed to out-of-sample validation">>,
         details |-> Upd(details, [reasonable_improvement |-> TRUE])]

(***************************************************************************)
(* evaluate_validation(train_sharpe, test_sharpe, degradation_pct,         *)
(* robustness_score, thresholds) of decision_logic.py.                     *)
(***************************************************************************)
SevereDegradation == 40
LowRobustness == 50
MinimalDegradation == 15
HighRobustness == 75
ModerateDegradation == 30
AcceptableRobustness == 60

\* the conditions of evaluate_validation, one per `if`
\* the comparison made inclusive
severe_degradation_inclusive(degradation_pct) == degradation_pct >= SevereDegradation
severe_degradation(degradation_pct) == degradation_pct > SevereDegradation
low_robustness(robustness_score) == robustness_score < LowRobustness
very_robust(degradation_pct, robustness_score) ==
  degradation_pct < MinimalDegradation /\ robustness_score > HighRobustness
moderate_degradation(degradation_pct, robustness_score) ==
  degradation_pct < ModerateDegradation /\ robustness_score > AcceptableRobustness

evaluate_validation(train_sharpe, test_sharpe, degradation_pct, robustness_score, thresholds) ==
  LET details == [train_sharpe |-> train_sharpe, test_sharpe |-> test_sharpe,
                  degradation_pct |-> degradation_pct,
                  robustness_score |-> robustness_score]
  IN  IF severe_degradation(degradation_pct) THEN
        [decision |-> "ABANDON_HYPOTHESIS",
         reason |-> <<"Severe degradation in out-of-sample testing (", degradation_pct,
                      "), strategy not robust">>,
         details |-> Upd(details, [high_risk |-> TRUE])]
      ELSE IF low_robustness(robustness_score) THEN
        [decision |-> "ABANDON_HYPOTHESIS",
         reason |-> <<"Low robustness score (", robustness_score,
                      "), strategy unstable across different periods">>,
         details |-> Upd(details, [unstable |-> TRUE])]
      ELSE IF very_robust(degradation_pct, robustness_score) THEN
        [decision |-> "DEPLOY_STRATEGY",
         reason |-> <<"Minimal degradation (", degradation_pct, "), high robustness (",
                      robustness_score, "), ready for deployment">>,
         details |-> Upd(details, [robust |-> TRUE])]
      ELSE IF moderate_degradation(degradation_pct, robustness_score) THEN
        [decision |-> "PROCEED_WITH_CAUTION",
         reason |-> <<"Moderate degradation (", degradation_pct, "), robustness acceptable (",
                      robustness_score, "), monitor closely">>,
         details |-> Upd(details, [moderate_risk |-> TRUE])]
      ELSE
        [decision |-> "ESCALATE_TO_HUMAN",
         reason |-> <<"Borderline results (degradation ", degradation_pct, ", robustness ",
                      robustness_score, "), needs human judgment">>,
         details |-> Upd(details, [borderline |-> TRUE])]

(***************************************************************************)
(* route_decision(current_phase, decision, iteration, max_iterations) of   *)
(* decision_logic.py.  A phase whose if/elif chain matches no decision     *)
(* falls through to the final return of the function.                      *)
(***************************************************************************)
Routing(next_phase, next_action, increment_iteration, rationale, terminal) ==
  [next_phase |-> next_phase, next_action |-> next_action,
   increment_iteration |-> increment_iteration, rationale |-> rationale,
   terminal |-> terminal]

\* the final return of the function
route_unknown(current_phase, decision) ==
  Routing(current_phase, "manual", FALSE,
          <<"Unknown phase '", current_phase, "' or decision '", decision,
            "', manual intervention required">>, FALSE)

\* the abandonment of a backtest leaving the iteration counter alone
route_backtest_keeps_iteration(current_phase, decision) ==
  IF decision = "ABANDON_HYPOTHESIS" THEN
    Routing("abandoned", "/qc-init", FALSE,
            <<"Backtest results below minimum viable threshold, start new hypothesis">>,
            TRUE)
  ELSE IF decision = "PROCEED_TO_OPTIMIZATION" THEN
    Routing("optimization", "/qc-optimize", FALSE,
            <<"Backtest shows decent performance, proceed to parameter optimization">>,
            FALSE)
  ELSE IF decision = "PROCEED_TO_VALIDATION" THEN
    Routing("validation", "/qc-validate", FALSE,
            <<"Backtest shows strong performance, skip optimization and proceed to validation">>,
            FALSE)
  ELSE IF decision = "ESCALATE_TO_HUMAN" THEN
    Routing("backtest", "manual", FALSE,
            <<"Suspicious backtest results (overfitting signals), human review required">>,
            FALSE)
  ELSE route_unknown(current_phase, decision)

\* Phase: backtest (Phase 3)
route_backtest(current_phase, decision) ==
  IF decision = "ABANDON_HYPOTHESIS" THEN
    Routing("abandoned", "/qc-init", TRUE,
            <<"Backtest results below minimum viable threshold, start new hypothesis">>,
            TRUE)
  ELSE IF decision = "PROCEED_TO_OPTIMIZATION" THEN
    Routing("optimization", "/qc-optimize", FALSE,
            <<"Backtest shows decent performance, proceed to parameter optimization">>,
            FALSE)
  ELSE IF decision = "PROCEED_TO_VALIDATION" THEN
    Routing("validation", "/qc-validate", FALSE,
            <<"Backtest shows strong performance, skip optimization and proceed to validation">>,
            FALSE)
  ELSE IF decision = "ESCALATE_TO_HUMAN" THEN
    Routing("backtest", "manual", FALSE,
            <<"Suspicious backtest results (overfitting signals), human review required">>,
            FALSE)
  ELSE route_unknown(current_phase, decision)

\* USE_BASELINE_PARAMS sent back to the backtest phase
route_optimization_back_to_backtest(current_phase, decision) ==
  IF decision = "USE_BASELINE_PARAMS" THEN
    Routing("backtest", "/qc-backtest", FALSE,
            <<"Optimization did not improve performance, use baseline parameters for validation">>,
            FALSE)
  ELSE IF decision = "PROCEED_TO_VALIDATION" THEN
    Routing("validation", "/qc-validate --use-optimized", FALSE,
            <<"Optimization improved performance, use optimized parameters for validation">>,
            FALSE)
  ELSE IF decision = "ESCALATE_TO_HUMAN" THEN
    Routing("optimization", "manual", FALSE,
            <<"Optimization results suspicious (excessive improvement), human review required">>,
            FALSE)
  ELSE route_unknown(current_phase, decision)

\* PROCEED_TO_VALIDATION running the optimization again
route_optimization_again(current_phase, decision) ==
  IF decision = "USE_BASELINE_PARAMS" THEN
    Routing("validation", "/qc-validate --use-baseline", FALSE,
            <<"Optimization did not improve performance, use baseline parameters for validation">>,
            FALSE)
  ELSE IF decision = "PROCEED_TO_VALIDATION" THEN
    Routing("optimization", "/qc-optimize", FALSE,
            <<"Optimization improved performance, use optimized parameters for validation">>,
            FALSE)
  ELSE IF decision = "ESCALATE_TO_HUMAN" THEN
    Routing("optimization", "manual", FALSE,
            <<"Optimization results suspicious (excessive improvement), human review required">>,
            FALSE)
  ELSE route_unknown(current_phase, decision)

\* Phase: optimization (Phase 4)
route_optimization(current_phase, decision) ==
  IF decision = "USE_BASELINE_PARAMS" THEN
    Routing("validation", "/qc-validate --use-baseline", FALSE,
            <<"Optimization did not improve performance, use baseline parameters for validation">>,
            FALSE)
  ELSE IF decision = "PROCEED_TO_VALIDATION" THEN
    Routing("validation", "/qc-validate --use-optimized", FALSE,
            <<"Optimization improved performance, use optimized parameters for validation">>,
            FALSE)
  ELSE IF decision = "ESCALATE_TO_HUMAN" THEN
    Routing("optimization", "manual", FALSE,
            <<"Optimization results suspicious (excessive improvement), human review required">>,
            FALSE)
  ELSE route_unknown(current_phase, decision)

\* PROCEED_WITH_CAUTION kept in the validation phase for review
route_validation_caution_stays(current_phase, decision) ==
  IF decision = "ABANDON_HYPOTHESIS" THEN
    Routing("abandoned", "/qc-init", TRUE,
            <<"Validation failed (severe degradation or low robustness), start new hypothesis">>,
            TRUE)
  ELSE IF decision = "DEPLOY_STRATEGY" THEN
    Routing("deployed", "manual", FALSE,
            <<"Validation passed with minimal degradation, strategy ready for deployment">>,
            TRUE)
  ELSE IF decision \in {"PROCEED_WITH_CAUTION", "ESCALATE_TO_HUMAN"} THEN
    Routing("validation", "manual", FALSE,
            <<"Validation results borderline, human judgment required">>,
            FALSE)
  ELSE route_unknown(current_phase, decision)

\* Phase: validation (Phase 5)
route_validation(current_phase, decision) ==
  IF decision = "ABANDON_HYPOTHESIS" THEN
    Routing("abandoned", "/qc-init", TRUE,
            <<"Validation failed (severe degradation or low robustness), start new hypothesis">>,
            TRUE)
  ELSE IF decision = "DEPLOY_STRATEGY" THEN
    Routing("deployed", "manual", FALSE,
            <<"Validation passed with minimal degradation, strategy ready for deployment">>,
            TRUE)
  ELSE IF decision = "PROCEED_WITH_CAUTION" THEN
    Routing("deployed", "manual", FALSE,
            <<"Validation passed with moderate degradation, deploy with close monitoring">>,
            TRUE)
  ELSE IF decision = "ESCALATE_TO_HUMAN" THEN
    Routing("validation", "manual", FALSE,
            <<"Validation results borderline, human judgment required">>,
            FALSE)
  ELSE route_unknown(current_phase, decision)

\* the iteration guard made strict
route_decision_strict_guard(current_phase, decision, iteration, max_iterations) ==
  IF iteration > max_iterations THEN
    Routing("abandoned", "/qc-init", TRUE,
            <<"Maximum iterations (", max_iterations, ") exceeded, abandoning hypothesis">>,
            TRUE)
  ELSE IF current_phase = "backtest" THEN route_backtest(current_phase, decision)
  ELSE IF current_phase = "optimization" THEN route_optimization(current_phase, decision)
  ELSE IF current_phase = "validation" THEN route_validation(current_phase, decision)
  ELSE route_unknown(current_phase, decision)

route_decision(current_phase, decision, iteration, max_iterations) ==
  IF iteration >= max_iterations THEN
    Routing("abandoned", "/qc-init", TRUE,
            <<"Maximum iterations (", max_iterations, ") exceeded, abandoning hypothesis">>,
            TRUE)
  ELSE IF current_phase = "backtest" THEN route_backtest(current_phase, decision)
  ELSE IF current_phase = "optimization" THEN route_optimization(current_phase, decision)
  ELSE IF current_phase = "validation" THEN route_validation(current_phase, decision)
  ELSE route_unknown(current_phase, decision)

(***************************************************************************)
(* The evaluate-optimization command of decision_cli.py.  It reads the     *)
(* optimization results and the iteration state (two JSON objects),        *)
(* computes the improvement itself and hands decision, reason and details  *)
(* to output_decision.                                                     *)
(*                                                                         *)
(* The improvement is a quotient of two Sharpe ratios; it is kept as the   *)
(* exact fraction num/den (den > 0) and compared by cross-multiplication.  *)
(***************************************************************************)
SensitivityLimit == 50

Fraction(num, den) == [num |-> num, den |-> den]

\* f < c/100 and f > c/100 for a fraction f with f.den > 0
FracLess(f, c) == f.num * 100 < c * f.den
FracGreater(f, c) == f.num * 100 > c * f.den

\* the sensitivity check placed after the minimal-improvement rule
cli_optimization_decision_sensitivity_late(parameter_sensitivity, improvement) ==
  IF FracLess(improvement, MinimalImprovement) THEN "USE_BASELINE_PARAMS"
  ELSE IF parameter_sensitivity > SensitivityLimit THEN "PROCEED_WITH_ROBUST_PARAMS"
  ELSE IF FracGreater(improvement, ExcessiveImprovement) THEN "ESCALATE_TO_HUMAN"
  ELSE "PROCEED_TO_VALIDATION"

\* the if/elif chain that picks the decision
cli_optimization_decision(parameter_sensitivity, improvement) ==
  IF parameter_sensitivity > SensitivityLimit THEN "PROCEED_WITH_ROBUST_PARAMS"
  ELSE IF FracLess(improvement, MinimalImprovement) THEN "USE_BASELINE_PARAMS"
  ELSE IF FracGreater(improvement, ExcessiveImprovement) THEN "ESCALATE_TO_HUMAN"
  ELSE "PROCEED_TO_VALIDATION"

\* the guard testing for a zero baseline only
cli_improvement_nonzero_guard(baseline_sharpe, best_sharpe) ==
  IF baseline_sharpe > 0 THEN Fraction(best_sharpe - baseline_sharpe, baseline_sharpe)
  ELSE IF baseline_sharpe < 0 THEN Fraction(baseline_sharpe - best_sharpe, 0 - baseline_sharpe)
  ELSE Fraction(0, 1)

\* the improvement over the baseline; no division for a baseline <= 0
cli_improvement(baseline_sharpe, best_sharpe) ==
  IF baseline_sharpe > 0 THEN Fraction(best_sharpe - baseline_sharpe, baseline_sharpe)
  ELSE Fraction(0, 1)

cli_evaluate_optimization(opt_results, iteration_state) ==
  LET baseline_sharpe ==
        Get(Get(Get(iteration_state, "phase_results", EmptyDict), "backtest", EmptyDict),
            "sharpe_ratio", 0)
      best_sharpe == Get(opt_results, "best_sharpe", 0)
      best_params == Get(opt_results, "best_parameters", EmptyDict)
      improvement == cli_improvement(baseline_sharpe, best_sharpe)
      parameter_sensitivity == Get(opt_results, "parameter_sensitivity", 0)
      decision == cli_optimization_decision(parameter_sensitivity, improvement)
      details == [improvement |-> improvement, baseline_sharpe |-> baseline_sharpe,
                  best_sharpe |-> best_sharpe]
  IN  IF decision = "PROCEED_WITH_ROBUST_PARAMS" THEN
        [decision |-> decision,
         reason |-> <<"High parameter sensitivity (", parameter_sensitivity,
                      "). Using robust parameters (median of top 25%).">>,
         details |-> Upd(details, [sensitivity |-> parameter_sensitivity,
                                   warning |-> "fragile_parameters"])]
      ELSE IF decision = "USE_BASELINE_PARAMS" THEN
        [decision |-> decision,
         reason |-> <<"Optimization yielded minimal improvement (", improvement,
                      "%). Proceeding with baseline parameters.">>,
         details |-> details]
      ELSE IF decision = "ESCALATE_TO_HUMAN" THEN
        [decision |-> decision,
         reason |-> <<"Optimization yielded suspiciously large improvement (", improvement,
                      "%). Manual review recommended.">>,
         details |-> Upd(details, [warning |-> "suspicious_improvement"])]
      ELSE
        [decision |-> decision,
         reason |-> <<"Optimization improved performance by ", improvement,
                      "%. Using optimized parameters.">>,
         details |-> Upd(details, [best_parameters |-> best_params])]

(***************************************************************************)
(* update_and_run_existing_project(api, project_id, code_file) of          *)
(* qc_backtest.py.  The collaborators' answers are inputs: whether the     *)
(* code file exists, and what upload_file, create_backtest and             *)
(* read_backtest_results answer.  The value carries, next to the returned  *)
(* dictionary, the calls made on the api, in order.                        *)
(***************************************************************************)
None == "None"

Outcome(value, calls) == [value |-> value, calls |-> calls]

update_and_run_existing_project(file_exists, upload_result, backtest_result, final_result) ==
  IF ~file_exists THEN
    Outcome([success |-> FALSE, error |-> <<"File not found: ", "code_file">>], <<>>)
  \* upload_result is not looked at
  ELSE IF ~Get(backtest_result, "success", FALSE) THEN
    Outcome(backtest_result, <<<<"upload_file">>, <<"create_backtest">>>>)
  ELSE
    Outcome(final_result,
            <<<<"upload_file">>, <<"create_backtest">>,
              <<"read_backtest_results", Get(backtest_result, "backtestId", None)>>>>)

(***************************************************************************)
(* The evaluate-backtest command of decision_cli.py.  It reads the         *)
(* backtest results and the iteration state (two JSON objects); the tiers  *)
(* are looked up under thresholds.performance_criteria, the overfitting    *)
(* signals under thresholds.overfitting_signals.  The value is what the    *)
(* command hands to output_decision.                                       *)
(***************************************************************************)
CliDefaultTooPerfectSharpe == 300
CliDefaultTooFewTrades == 10
CliDefaultWinRateTooHigh == 80
CliDefaultMinSharpe == 50
CliDefaultMinMaxDrawdown == 35
CliDefaultMinTrades == 20
CliDefaultOptSharpe == 70
CliDefaultOptMaxDrawdown == 30
CliDefaultOptTrades == 30
CliDefaultProdSharpe == 100
CliDefaultProdMaxDrawdown == 20
CliDefaultProdTrades == 50
CliDefaultMaxDrawdown == 100

\* abs(x) of a number; abs(nan) is nan
Abs(x) == IF IsNaN(x) THEN x ELSE IF x < 0 THEN 0 - x ELSE x

cli_evaluate_backtest(backtest_results, iteration_state) ==
  LET thresholds == Get(iteration_state, "thresholds", EmptyDict)
      perf_criteria == Get(thresholds, "performance_criteria", EmptyDict)
      overfit_signals == Get(thresholds, "overfitting_signals", EmptyDict)
      sharpe == Get(backtest_results, "sharpe_ratio", 0)
      drawdown == Abs(Get(backtest_results, "max_drawdown", CliDefaultMaxDrawdown))
      num_trades == Get(backtest_results, "total_trades", 0)
      win_rate == Get(backtest_results, "win_rate", 0)
      min_viable == Get(perf_criteria, "minimum_viable", EmptyDict)
      opt_worthy == Get(perf_criteria, "optimization_worthy", EmptyDict)
      prod_ready == Get(perf_criteria, "production_ready", EmptyDict)
      meets_minimum ==
        /\ Ge(sharpe, Get(min_viable, "sharpe_ratio", CliDefaultMinSharpe))
        /\ Le(drawdown, Get(min_viable, "max_drawdown", CliDefaultMinMaxDrawdown))
        /\ Ge(num_trades, Get(min_viable, "min_trades", CliDefaultMinTrades))
      meets_optimization ==
        /\ Ge(sharpe, Get(opt_worthy, "sharpe_ratio", CliDefaultOptSharpe))
        /\ Le(drawdown, Get(opt_worthy, "max_drawdown", CliDefaultOptMaxDrawdown))
        /\ Ge(num_trades, Get(opt_worthy, "min_trades", CliDefaultOptTrades))
      meets_production ==
        /\ Ge(sharpe, Get(prod_ready, "sharpe_ratio", CliDefaultProdSharpe))
        /\ Le(drawdown, Get(prod_ready, "max_drawdown", CliDefaultProdMaxDrawdown))
        /\ Ge(num_trades, Get(prod_ready, "min_trades", CliDefaultProdTrades))
      tier_details(tier) ==
        [performance_tier |-> tier, sharpe |-> sharpe, drawdown |-> drawdown,
         num_trades |-> num_trades]
  IN  \* technical failure
      IF Get(backtest_results, "status", None) = "error" THEN
        [decision |-> "ESCALATE_TO_HUMAN",
         reason |-> <<"Backtest failed: ", Get(backtest_results, "error", "Unknown error")>>,
         details |-> [error_type |-> "technical_failure"]]
      \* overfitting signals
      ELSE IF Gt(sharpe, Get(overfit_signals, "too_perfect_sharpe", CliDefaultTooPerfectSharpe)) THEN
        [decision |-> "ESCALATE_TO_HUMAN",
         reason |-> <<"OVERFITTING ALERT: Sharpe ", sharpe, " is suspiciously high (>",
                      Get(overfit_signals, "too_perfect_sharpe", CliDefaultTooPerfectSharpe),
                      ")">>,
         details |-> [overfitting_signal |-> "too_perfect_sharpe", sharpe |-> sharpe]]
      ELSE IF Lt(num_trades, Get(overfit_signals, "too_few_trades", CliDefaultTooFewTrades)) THEN
        [decision |-> "ABANDON_HYPOTHESIS",
         reason |-> <<"Too few trades (", num_trades, " < ",
                      Get(overfit_signals, "too_few_trades", CliDefaultTooFewTrades),
                      "). Insufficient sample size.">>,
         details |-> [overfitting_signal |-> "too_few_trades", num_trades |-> num_trades]]
      ELSE IF Gt(win_rate, Get(overfit_signals, "win_rate_too_high", CliDefaultWinRateTooHigh)) THEN
        [decision |-> "ESCALATE_TO_HUMAN",
         reason |-> <<"OVERFITTING ALERT: Win rate ", win_rate, " is suspiciously high">>,
         details |-> [overfitting_signal |-> "win_rate_too_high", win_rate |-> win_rate]]
      \* performance categorization
      ELSE IF meets_production THEN
        [decision |-> "PROCEED_TO_VALIDATION",
         reason |-> <<"Excellent performance: Sharpe=", sharpe, ", DD=", drawdown,
                      ", Trades=", num_trades, ". Skip optimization.">>,
         details |-> tier_details("production_ready")]
      ELSE IF meets_optimization THEN
        [decision |-> "PROCEED_TO_OPTIMIZATION",
         reason |-> <<"Good performance (Sharpe=", sharpe,
                      "), but can optimize. Parameters need tuning.">>,
         details |-> tier_details("optimization_worthy")]
      ELSE IF meets_minimum THEN
        [decision |-> "PROCEED_TO_VALIDATION",
         reason |-> <<"Marginal performance (Sharpe=", sharpe,
                      "). Skipping optimization, validate as-is.">>,
         details |-> tier_details("minimum_viable")]
      ELSE
        [decision |-> "ABANDON_HYPOTHESIS",
         reason |-> <<"Poor performance: Sharpe=", sharpe, ", DD=", drawdown,
                      ". Below minimum thresholds.">>,
         details |-> Upd(tier_details("below_minimum"), [minimum_required |-> min_viable])]

(***************************************************************************)
(* The route command of decision_cli.py.  --phase is one of backtest,      *)
(* optimization, validation (a click.Choice).  The value carries the       *)
(* routing dictionary, what was written to stdout and to stderr, and the   *)
(* exit status of the process.                                             *)
(***************************************************************************)
cli_routing_error(phase, decision) ==
  [error |-> <<"Unknown decision: ", decision, " for phase: ", phase>>]

cli_routing(phase, decision, iteration) ==
  IF phase = "backtest" THEN
    IF decision = "PROCEED_TO_OPTIMIZATION" THEN
      [next_phase |-> "optimization", next_action |-> "Run parameter optimization",
       update_state |-> [current_phase |-> "optimization"]]
    ELSE IF decision = "PROCEED_TO_VALIDATION" THEN
      [next_phase |-> "validation", next_action |-> "Run walk-forward validation",
       update_state |-> [current_phase |-> "validation"]]
    ELSE IF decision = "ABANDON_HYPOTHESIS" THEN
      [next_phase |-> "research",
       next_action |-> "Select next hypothesis or generate new ones",
       update_state |-> [current_phase |-> "research", iteration |-> iteration + 1,
                         hypothesis_status |-> "abandoned"]]
    ELSE IF decision = "ESCALATE_TO_HUMAN" THEN
      [next_phase |-> "paused", next_action |-> "Request human guidance",
       update_state |-> [current_phase |-> "awaiting_human"]]
    ELSE cli_routing_error(phase, decision)
  ELSE IF phase = "optimization" THEN
    IF decision \in {"PROCEED_TO_VALIDATION", "USE_BASELINE_PARAMS",
                     "PROCEED_WITH_ROBUST_PARAMS"} THEN
      [next_phase |-> "validation", next_action |-> "Run walk-forward validation",
       update_state |-> [current_phase |-> "validation"],
       use_optimized_params |-> (decision # "USE_BASELINE_PARAMS")]
    ELSE IF decision = "ESCALATE_TO_HUMAN" THEN
      [next_phase |-> "paused",
       next_action |-> "Request human guidance on optimization results",
       update_state |-> [current_phase |-> "awaiting_human"]]
    ELSE cli_routing_error(phase, decision)
  ELSE IF phase = "validation" THEN
    IF decision \in {"DEPLOY_STRATEGY", "PROCEED_WITH_CAUTION"} THEN
      [next_phase |-> "deployed",
       next_action |-> "Document strategy and prepare for deployment",
       update_state |-> [current_phase |-> "deployed",
                         deployment_status |->
                           IF decision = "DEPLOY_STRATEGY" THEN "ready" ELSE "caution"]]
    ELSE IF decision = "ABANDON_HYPOTHESIS" THEN
      [next_phase |-> "research", next_action |-> "Select next hypothesis",
       update_state |-> [current_phase |-> "research", iteration |-> iteration + 1,
                         hypothesis_status |-> "failed_validation"]]
    ELSE IF decision = "ESCALATE_TO_HUMAN" THEN
      [next_phase |-> "paused",
       next_action |-> "Request human guidance on validation results",
       update_state |-> [current_phase |-> "awaiting_human"]]
    ELSE cli_routing_error(phase, decision)
  ELSE EmptyDict

\* what the process wrote and how it ended
Exit(routing, stdout, stderr, exit_status) ==
  [routing |-> routing, stdout |-> stdout, stderr |-> stderr, exit_status |-> exit_status]

cli_route(phase, decision, iteration, output_json) ==
  LET routing == cli_routing(phase, decision, iteration)
  IN  IF output_json THEN
        \* click.echo(json.dumps(routing, indent=2))
        Exit(routing, <<routing>>, <<>>, 0)
      ELSE IF "error" \in DOMAIN routing THEN
        Exit(routing, <<>>, <<routing.error>>, 1)
      ELSE
        Exit(routing,
             <<<<"Routing Decision:">>, <<"Current Phase: ", phase>>,
               <<"Decision: ", decision>>, <<"Next Phase: ", routing.next_phase>>,
               <<"Next Action: ", routing.next_action>>>>,
             <<>>, 0)

(***************************************************************************)
(* Inputs of the other functions.                                          *)
(***************************************************************************)
Phases == {"research", "implementation", "backtest", "optimization", "validation",
           "deployed", "abandoned"}

Decisions == {"ABANDON_HYPOTHESIS", "PROCEED_TO_OPTIMIZATION", "PROCEED_TO_VALIDATION",
              "ESCALATE_TO_HUMAN", "USE_BASELINE_PARAMS", "PROCEED_WITH_ROBUST_PARAMS",
              "DEPLOY_STRATEGY", "PROCEED_WITH_CAUTION"}

BaselineValues == {-100, 0, 100}
BestValues == {-200, -100, 0} \cup Near({100, 100 + MinimalImprovement, 100 + ExcessiveImprovement})
ImprovementValues == {-100, 100} \cup Near({0, MinimalImprovement, ExcessiveImprovement})
SensitivityValues == {0, 100} \cup Near({SensitivityLimit})
DegradationValues == {-100, 0, 100} \cup Near({MinimalDegradation, ModerateDegradation, SevereDegradation})
RobustnessValues == {-100, 0, 100} \cup Near({LowRobustness, AcceptableRobustness, HighRobustness})

(***************************************************************************)
(* The state is one call of one function of the module: the function, its  *)
(* arguments, and, once the call has returned, the value it returned.  The *)
(* functions keep no state of their own, so a call is all there is.  The   *)
(* workflow state of a run (run) and the clock and last status read of a   *)
(* polling call (poll) are used by the specifications further down.        *)
(***************************************************************************)
InitEvaluateBacktest ==
  \E c \in DOMAIN ThresholdConfigs :
    \E s \in SharpeValues(ThresholdConfigs[c]), d \in DrawdownValues(ThresholdConfigs[c]),
       t \in TradesValues(ThresholdConfigs[c]), w \in WinRateValues(ThresholdConfigs[c]) :
      /\ fn = "evaluate_backtest"
      /\ args = [performance |-> [sharpe_ratio |-> s, max_drawdown |-> d, total_trades |-> t,
                                 win_rate |-> w, total_return |-> 0],
                 thresholds |-> ThresholdConfigs[c]]

\* d without the keys outside K
Restrict(d, K) == [k \in K \cap DOMAIN d |-> d[k]]

\* configurations with missing tiers: thresholds = {}, and a complete
\* configuration, none of whose values is a default, less one of its tiers
MissingTierConfigs ==
  {EmptyDict} \cup {Restrict(CrossedThresholds, DOMAIN CrossedThresholds \ {tier}) :
                      tier \in DOMAIN CrossedThresholds}

\* the metrics are the thresholds in force, defaults included, and the
\* values next to them
InitEvaluateBacktestMissingTiers ==
  \E th \in MissingTierConfigs :
    \E s \in SharpeWithin(th, 1), d \in DrawdownWithin(th, 1),
       t \in TradesWithin(th, 1), w \in WinRateWithin(th, 1) :
      /\ fn = "evaluate_backtest"
      /\ args = [performance |-> [sharpe_ratio |-> s, max_drawdown |-> d, total_trades |-> t,
                                 win_rate |-> w, total_return |-> 0],
                 thresholds |-> th]

\* records with missing fields: every choice of at most MaxFields fields
MetricValues(field) ==
  IF field = "sharpe_ratio" THEN SharpeValues(DocumentedThresholds)
  ELSE IF field = "max_drawdown" THEN DrawdownValues(DocumentedThresholds)
  ELSE IF field = "total_trades" THEN TradesValues(DocumentedThresholds)
  ELSE IF field = "win_rate" THEN WinRateValues(DocumentedThresholds)
  ELSE {0}

InitEvaluateBacktestMissingFields ==
  \E fields \in {F \in SUBSET {"sharpe_ratio", "max_drawdown", "total_trades", "win_rate",
                               "total_return"} : Cardinality(F) <= MaxFields} :
    \E performance \in [fields -> UNION {MetricValues(f) : f \in fields}] :
      /\ \A f \in fields : performance[f] \in MetricValues(f)
      /\ fn = "evaluate_backtest"
      /\ args = [performance |-> performance, thresholds |-> DocumentedThresholds]

InitEvaluateOptimization ==
  \E b \in BaselineValues, i \in ImprovementValues :
    /\ fn = "evaluate_optimization"
    /\ args = [baseline_sharpe |-> b, optimized_sharpe |-> b + i, improvement_pct |-> i,
               thresholds |-> DocumentedThresholds]

InitEvaluateValidation ==
  \E d \in DegradationValues, r \in RobustnessValues :
    /\ fn = "evaluate_validation"
    /\ args = [train_sharpe |-> 100, test_sharpe |-> r, degradation_pct |-> d,
               robustness_score |-> r, thresholds |-> DocumentedThresholds]

InitRouteDecision ==
  \E p \in Phases, d \in Decisions, i \in 0..MaxIteration, m \in 0..MaxIteration :
    /\ fn = "route_decision"
    /\ args = [current_phase |-> p, decision |-> d, iteration |-> i, max_iterations |-> m]

\* the iteration state with the Sharpe ratio of the backtest phase, and the
\* ones that lack it
IterationStates ==
  {[phase_results |-> [backtest |-> [sharpe_ratio |-> b]]] : b \in BaselineValues}
  \cup {EmptyDict, [phase_results |-> EmptyDict], [phase_results |-> [backtest |-> EmptyDict]]}

\* parameter_sensitivity is an optional key of the optimization results
InitCliEvaluateOptimization ==
  \E state \in IterationStates, o \in BestValues :
    /\ fn = "cli_evaluate_optimization"
    /\ \E sens \in {EmptyDict} \cup {[parameter_sensitivity |-> v] : v \in SensitivityValues} :
         args = [opt_results |-> Upd([best_sharpe |-> o], sens),
                 iteration_state |-> state]

\* the answers of the platform: _request returns the JSON body, or
\* {"success": False, "error": ...} when the request failed
UploadResults ==
  {[success |-> TRUE],
   [success |-> FALSE, errors |-> <<"File name is not valid">>],
   [success |-> FALSE, error |-> <<"request failed">>]}

CreateBacktestResults ==
  {[success |-> TRUE, backtest |-> [backtestId |-> "b1"]],
   [success |-> TRUE, backtestId |-> "b1"],
   [success |-> FALSE, errors |-> <<"Build Error">>],
   [success |-> FALSE, error |-> <<"request failed">>]}

BacktestResults ==
  {[success |-> TRUE, performance |-> [sharpe_ratio |-> 100]],
   [success |-> FALSE, error |-> <<"Timeout waiting for backtest">>]}

InitUpdateAndRun ==
  \E e \in BOOLEAN, u \in UploadResults, b \in CreateBacktestResults, f \in BacktestResults :
    /\ fn = "update_and_run_existing_project"
    /\ args = [file_exists |-> e, upload_result |-> u, backtest_result |-> b,
               final_result |-> f]

CallUpdateAndRun ==
  /\ pc = "call" /\ fn = "update_and_run_existing_project"
  /\ result' = update_and_run_existing_project(args.file_exists, args.upload_result,
                                               args.backtest_result, args.final_result)
  /\ pc' = "return"
  /\ UNCHANGED <<fn, args, run, poll>>

\* the iteration state holding the thresholds th where the command looks
\* them up
CliIterationState(th) ==
  [thresholds |->
     [performance_criteria |-> Restrict(th, DOMAIN th \ {"overfitting_signals"}),
      overfitting_signals |-> Get(th, "overfitting_signals", EmptyDict)]]

\* the records evaluate_backtest is given under the documented thresholds,
\* and the results of a failed backtest
InitCliEvaluateBacktest ==
  \/ \E s \in SharpeWithin(DocumentedThresholds, 1),
        d \in DrawdownWithin(DocumentedThresholds, 1),
        t \in TradesWithin(DocumentedThresholds, 1),
        w \in WinRateWithin(DocumentedThresholds, 1) :
       /\ fn = "cli_evaluate_backtest"
       /\ args = [backtest_results |->
                    [sharpe_ratio |-> s, max_drawdown |-> d, total_trades |-> t,
                     win_rate |-> w, total_return |-> 0],
                  iteration_state |-> CliIterationState(DocumentedThresholds)]
  \/ \E r \in {[status |-> "error"], [status |-> "error", error |-> "Runtime Error"]} :
       /\ fn = "cli_evaluate_backtest"
       /\ args = [backtest_results |-> r,
                  iteration_state |-> CliIterationState(DocumentedThresholds)]

CallCliEvaluateBacktest ==
  /\ pc = "call" /\ fn = "cli_evaluate_backtest"
  /\ result' = cli_evaluate_backtest(args.backtest_results, args.iteration_state)
  /\ pc' = "return"
  /\ UNCHANGED <<fn, args, run, poll>>

(***************************************************************************)
(* The metrics of the run command of qc_validate.py, computed from the     *)
(* in-sample and the out-of-sample Sharpe ratio and later handed to        *)
(* evaluate_validation.  The in-sample values of the model divide the      *)
(* numerators exactly, so the quotients in hundredths are integers.        *)
(***************************************************************************)
\* a / b for b # 0 dividing a
Quot(a, b) == IF b < 0 THEN (0 - a) \div (0 - b) ELSE a \div b

qc_degradation_pct(sharpe_is, sharpe_oos) ==
  IF sharpe_is # 0 THEN Quot(100 * (sharpe_is - sharpe_oos), sharpe_is) ELSE 100

qc_robustness_score(sharpe_is, sharpe_oos) ==
  IF sharpe_is # 0 THEN Quot(100 * sharpe_oos, sharpe_is) ELSE 0

InSampleValues == {-100, 0, 100}
OutOfSampleValues == (0 - MaxSharpe)..MaxSharpe

InitEvaluateValidationOfRun ==
  \E sharpe_is \in InSampleValues, sharpe_oos \in OutOfSampleValues :
    /\ fn = "evaluate_validation"
    /\ args = [train_sharpe |-> sharpe_is, test_sharpe |-> sharpe_oos,
               degradation_pct |-> qc_degradation_pct(sharpe_is, sharpe_oos),
               robustness_score |-> qc_robustness_score(sharpe_is, sharpe_oos),
               thresholds |-> DocumentedThresholds]

CliPhases == {"backtest", "optimization", "validation"}

InitCliRoute ==
  \E p \in CliPhases, d \in Decisions, i \in 0..MaxIteration, j \in BOOLEAN :
    /\ fn = "cli_route"
    /\ args = [phase |-> p, decision |-> d, iteration |-> i, output_json |-> j]

CallCliRoute ==
  /\ pc = "call" /\ fn = "cli_route"
  /\ result' = cli_route(args.phase, args.decision, args.iteration, args.output_json)
  /\ pc' = "return"
  /\ UNCHANGED <<fn, args, run, poll>>

\* no workflow run and no polling call is going on
NoRun == EmptyDict
NoPoll == EmptyDict

Init ==
  /\ pc = "call"
  /\ result = EmptyDict
  /\ run = NoRun
  /\ poll = NoPoll
  /\ \/ InitEvaluateBacktest
     \/ InitEvaluateBacktestMissingTiers
     \/ InitEvaluateBacktestMissingFields
     \/ InitEvaluateOptimization
     \/ InitEvaluateValidation
     \/ InitRouteDecision
     \/ InitUpdateAndRun
     \/ InitCliEvaluateBacktest
     \/ InitEvaluateValidationOfRun
     \/ InitCliRoute
     \/ InitCliEvaluateOptimization

CallEvaluateBacktest ==
  /\ pc = "call" /\ fn = "evaluate_backtest"
  /\ result' = evaluate_backtest(args.performance, args.thresholds)
  /\ pc' = "return"
  /\ UNCHANGED <<fn, args, run, poll>>

CallEvaluateOptimization ==
  /\ pc = "call" /\ fn = "evaluate_optimization"
  /\ result' = evaluate_optimization(args.baseline_sharpe, args.optimized_sharpe,
                                     args.improvement_pct, args.thresholds)
  /\ pc' = "return"
  /\ UNCHANGED <<fn, args, run, poll>>

CallEvaluateValidation ==
  /\ pc = "call" /\ fn = "evaluate_validation"
  /\ result' = evaluate_validation(args.train_sharpe, args.test_sharpe, args.degradation_pct,
                                   args.robustness_score, args.thresholds)
  /\ pc' = "return"
  /\ UNCHANGED <<fn, args, run, poll>>

CallRouteDecision ==
  /\ pc = "call" /\ fn = "route_decision"
  /\ result' = route_decision(args.current_phase, args.decision, args.iteration,
                              args.max_iterations)
  /\ pc' = "return"
  /\ UNCHANGED <<fn, args, run, poll>>

CallCliEvaluateOptimization ==
  /\ pc = "call" /\ fn = "cli_evaluate_optimization"
  /\ result' = cli_evaluate_optimization(args.opt_results, args.iteration_state)
  /\ pc' = "return"
  /\ UNCHANGED <<fn, args, run, poll>>

Next ==
  \/ CallEvaluateBacktest
  \/ CallEvaluateOptimization
  \/ CallEvaluateValidation
  \/ CallRouteDecision
  \/ CallCliEvaluateOptimization
  \/ CallCliRoute
  \/ CallCliEvaluateBacktest
  \/ CallUpdateAndRun

Spec == Init /\ [][Next]_vars

(***************************************************************************)
(* The workflow run.  The caller owns the workflow state (current_phase,   *)
(* iteration): it hands the decision of the current phase's evaluator to   *)
(* route_decision and applies the result, phase := next_phase and          *)
(* iteration := iteration + 1 when increment_iteration is True, until a    *)
(* result is terminal.  A run starts at phase backtest with iteration 1.   *)
(***************************************************************************)
\* the decisions the evaluator of a phase returns
PhaseDecisions(phase) ==
  IF phase = "backtest" THEN
    {"ABANDON_HYPOTHESIS", "PROCEED_TO_OPTIMIZATION", "PROCEED_TO_VALIDATION",
     "ESCALATE_TO_HUMAN"}
  ELSE IF phase = "optimization" THEN
    {"USE_BASELINE_PARAMS", "PROCEED_TO_VALIDATION", "ESCALATE_TO_HUMAN",
     "PROCEED_WITH_ROBUST_PARAMS"}
  ELSE IF phase = "validation" THEN
    {"ABANDON_HYPOTHESIS", "DEPLOY_STRATEGY", "PROCEED_WITH_CAUTION", "ESCALATE_TO_HUMAN"}
  ELSE {}

Min(a, b) == IF a < b THEN a ELSE b

WorkflowInit ==
  /\ pc = "route"
  /\ fn = "workflow"
  /\ args = EmptyDict
  /\ result = EmptyDict
  /\ poll = NoPoll
  /\ \E m \in 1..MaxIteration :
       run = [current_phase |-> "backtest", iteration |-> 1, max_iterations |-> m,
              steps |-> 0]

\* one routing step: args and result are those of the call of route_decision
RouteStep ==
  /\ pc = "route"
  /\ \E decision \in PhaseDecisions(run.current_phase) :
       LET routing == route_decision(run.current_phase, decision, run.iteration,
                                     run.max_iterations)
       IN  /\ args' = [current_phase |-> run.current_phase, decision |-> decision,
                       iteration |-> run.iteration, max_iterations |-> run.max_iterations]
           /\ result' = routing
           /\ run' = [run EXCEPT !.current_phase = routing.next_phase,
                                 !.iteration = IF routing.increment_iteration
                                                 THEN run.iteration + 1 ELSE run.iteration,
                                 !.steps = Min(run.steps + 1, MaxSteps)]
           /\ pc' = IF routing.terminal THEN "done" ELSE "route"
  /\ UNCHANGED <<fn, poll>>

WorkflowNext == RouteStep

\* the caller keeps routing as long as the run is not over
WorkflowSpec == WorkflowInit /\ [][WorkflowNext]_vars /\ WF_vars(RouteStep)

(***************************************************************************)
(* The polling loops of qc_api.py: wait_for_backtest and                   *)
(* wait_for_optimization.  Time is in seconds; poll.start_time and         *)
(* poll.now are readings of time.time().  A status read takes 0 to         *)
(* MaxLatency seconds and answers whatever the platform answers;           *)
(* time.sleep(poll_interval) takes poll_interval seconds.                  *)
(***************************************************************************)
\* no reading of the clock is needed beyond MaxTime
MaxTime == MaxTimeout + MaxLatency + MaxPollInterval

\* str.lower() on the status values of the platform
Lower(status) ==
  IF status = "Completed" THEN "completed"
  ELSE IF status = "Running" THEN "running"
  ELSE IF status = "Failed" THEN "failed"
  ELSE status

\* what read_backtest can answer: a failed request, or the backtest with its
\* completed flag and its error (empty when there is none); an error message
\* is written like an f-string, as the tuple of its parts
BacktestReads ==
  {[success |-> FALSE, error |-> <<"request failed">>]}
  \cup {[success |-> TRUE, backtest |-> [completed |-> c, error |-> e, progress |-> 50]] :
          c \in BOOLEAN, e \in {<<>>, <<"Runtime Error">>}}
  \cup {[success |-> TRUE]}

\* what read_optimization can answer
OptimizationReads ==
  {[success |-> FALSE, error |-> <<"request failed">>]}
  \cup {[success |-> TRUE, optimization |-> [status |-> st, progress |-> 50]] :
          st \in {"new", "Running", "running", "Completed", "completed", "error", "Failed",
                  "failed", "cancelled"}}
  \cup {[success |-> TRUE, optimization |-> [status |-> "error", error |-> <<"out of memory">>]],
        [success |-> TRUE]}

\* elapsed measured from the current reading of the clock
elapsed_restarted(now, start_time) == now - now
\* elapsed = time.time() - start_time
elapsed(now, start_time) == now - start_time

timed_out(now, start_time, timeout) == elapsed(now, start_time) > timeout

\* the branches after a status read: the loop returns a value or goes on to
\* sleep
Return(value) == [returns |-> TRUE, value |-> value]
KeepWaiting == [returns |-> FALSE]

backtest_poll(read) ==
  LET backtest == Get(read, "backtest", EmptyDict)
      completed == Get(backtest, "completed", FALSE)
  IN  IF ~Get(read, "success", FALSE) THEN Return(read)
      ELSE IF completed THEN Return(read)
      ELSE IF Get(backtest, "error", <<>>) # <<>> THEN
        Return([success |-> FALSE, error |-> backtest.error])
      ELSE KeepWaiting

optimization_poll(read) ==
  LET optimization == Get(read, "optimization", EmptyDict)
      status == Lower(Get(optimization, "status", ""))
  IN  IF ~Get(read, "success", FALSE) THEN Return(read)
      ELSE IF status = "completed" THEN Return(read)
      ELSE IF status \in {"error", "failed", "cancelled"} THEN
        Return([success |-> FALSE,
                error |-> <<"Optimization ", status, ": ",
                            Get(optimization, "error", <<"Unknown error">>)>>])
      ELSE KeepWaiting

NoRead == EmptyDict

PollInit ==
  /\ pc = "elapsed"
  /\ fn \in {"wait_for_backtest", "wait_for_optimization"}
  /\ \E timeout \in 0..MaxTimeout, poll_interval \in 1..MaxPollInterval :
       args = [timeout |-> timeout, poll_interval |-> poll_interval]
  /\ result = EmptyDict
  /\ run = NoRun
  /\ poll = [start_time |-> 0, now |-> 0, read |-> NoRead]

\* the head of the loop: elapsed is computed and compared with timeout
PollElapsed ==
  /\ pc = "elapsed"
  /\ IF timed_out(poll.now, poll.start_time, args.timeout)
       THEN /\ result' = [success |-> FALSE,
                          error |-> <<IF fn = "wait_for_backtest" THEN "Backtest" ELSE "Optimization",
                                      " timed out after ", args.timeout, "s">>]
            /\ pc' = "return"
       ELSE /\ pc' = "read"
            /\ UNCHANGED result
  /\ UNCHANGED <<fn, args, run, poll>>

\* the status read and the branches on what it answered
PollRead ==
  /\ pc = "read"
  /\ \E latency \in 0..MaxLatency :
       \E read \in IF fn = "wait_for_backtest" THEN BacktestReads ELSE OptimizationReads :
         LET outcome == IF fn = "wait_for_backtest" THEN backtest_poll(read)
                        ELSE optimization_poll(read)
         IN  /\ poll' = [poll EXCEPT !.now = Min(poll.now + latency, MaxTime), !.read = read]
             /\ IF outcome.returns
                  THEN pc' = "return" /\ result' = outcome.value
                  ELSE pc' = "sleep" /\ UNCHANGED result
  /\ UNCHANGED <<fn, args, run>>

\* time.sleep(poll_interval)
PollSleep ==
  /\ pc = "sleep"
  /\ poll' = [poll EXCEPT !.now = Min(poll.now + args.poll_interval, MaxTime)]
  /\ pc' = "elapsed"
  /\ UNCHANGED <<fn, args, result, run>>

PollNext ==
  \/ PollElapsed
  \/ PollRead
  \/ PollSleep

\* the loop keeps running; every status read returns
PollSpec == PollInit /\ [][PollNext]_vars /\ WF_vars(PollNext)

(***************************************************************************)
(* Properties.  Returned(f) holds in the state where a call of f has       *)
(* returned; args holds its arguments and result the returned value.       *)
(***************************************************************************)
Returned(f) == pc = "return" /\ fn = f

\* the metrics of the record passed to evaluate_backtest, as the function
\* reads them: a missing field is 0
Perf ==
  [sharpe_ratio |-> Get(args.performance, "sharpe_ratio", 0),
   max_drawdown |-> Get(args.performance, "max_drawdown", 0),
   total_trades |-> Get(args.performance, "total_trades", 0),
   win_rate |-> Get(args.performance, "win_rate", 0),
   total_return |-> Get(args.performance, "total_return", 0)]

\* the three overfitting signals, the minimum-viable failures and the tier
\* conditions, written out from the wording of the specification; a
\* comparison of a ratio that is NaN is false
HasOverfittingSignal(p, th) ==
  \/ Gt(p.sharpe_ratio, too_perfect_sharpe(th))
  \/ (0 < p.total_trades /\ p.total_trades < too_few_trades(th))
  \/ Gt(p.win_rate, win_rate_too_high(th))

FailsMinimumViable(p, th) ==
  \/ Lt(p.sharpe_ratio, min_sharpe(th))
  \/ Gt(p.max_drawdown, max_dd_threshold(th))
  \/ p.total_trades < min_trades(th)

IsProductionReady(p, th) ==
  /\ Ge(p.sharpe_ratio, prod_sharpe(th))
  /\ Le(p.max_drawdown, prod_dd(th))
  /\ p.total_trades >= prod_trades(th)
  /\ Ge(p.win_rate, prod_win_rate(th))

IsOptimizationWorthy(p, th) ==
  /\ Ge(p.sharpe_ratio, opt_sharpe(th))
  /\ Le(p.max_drawdown, opt_dd(th))
  /\ p.total_trades >= opt_trades(th)

TierIs(details, t) == "tier" \in DOMAIN details /\ details["tier"] = t

Flagged(details, k) == k \in DOMAIN details /\ details[k] = TRUE

C2_IterationGuardAbandons ==
  (Returned("route_decision") /\ args.iteration >= args.max_iterations) =>
    (result.next_phase = "abandoned" /\ result.terminal = TRUE)

\* route_decision('backtest', 'PROCEED_TO_OPTIMIZATION', 3, 3) has returned
C2_Witness ==
  /\ Returned("route_decision")
  /\ args.current_phase = "backtest" /\ args.decision = "PROCEED_TO_OPTIMIZATION"
  /\ args.iteration = 3 /\ args.max_iterations = 3
  /\ result.next_phase = "abandoned" /\ result.terminal = TRUE

\* the transition table of C3: <<phase, decision>> to
\* <<next_phase, next_action, increment_iteration, terminal>>
TransitionTable ==
  (<<"backtest", "ABANDON_HYPOTHESIS">> :> <<"abandoned", "/qc-init", TRUE, TRUE>>)
  @@ (<<"backtest", "PROCEED_TO_OPTIMIZATION">> :> <<"optimization", "/qc-optimize", FALSE, FALSE>>)
  @@ (<<"backtest", "PROCEED_TO_VALIDATION">> :> <<"validation", "/qc-validate", FALSE, FALSE>>)
  @@ (<<"backtest", "ESCALATE_TO_HUMAN">> :> <<"backtest", "manual", FALSE, FALSE>>)
  @@ (<<"optimization", "USE_BASELINE_PARAMS">> :> <<"validation", "/qc-validate --use-baseline", FALSE, FALSE>>)
  @@ (<<"optimization", "PROCEED_TO_VALIDATION">> :> <<"validation", "/qc-validate --use-optimized", FALSE, FALSE>>)
  @@ (<<"optimization", "ESCALATE_TO_HUMAN">> :> <<"optimization", "manual", FALSE, FALSE>>)
  @@ (<<"validation", "DEPLOY_STRATEGY">> :> <<"deployed", "manual", FALSE, TRUE>>)
  @@ (<<"validation", "PROCEED_WITH_CAUTION">> :> <<"deployed", "manual", FALSE, TRUE>>)
  @@ (<<"validation", "ABANDON_HYPOTHESIS">> :> <<"abandoned", "/qc-init", TRUE, TRUE>>)
  @@ (<<"validation", "ESCALATE_TO_HUMAN">> :> <<"validation", "manual", FALSE, FALSE>>)

\* C3: for iteration < max_iterations route_decision implements the
\* transition table: each listed (phase, decision) pair gets the listed
\* next_phase, next_action, increment_iteration and terminal flag, and
\* ESCALATE_TO_HUMAN keeps the phase with action 'manual'.
C3_TransitionTable ==
  (/\ Returned("route_decision")
   /\ args.iteration < args.max_iterations
   /\ <<args.current_phase, args.decision>> \in DOMAIN TransitionTable) =>
    LET row == TransitionTable[<<args.current_phase, args.decision>>]
    IN /\ result.next_phase = row[1]
       /\ result.next_action = row[2]
       /\ result.increment_iteration = row[3]
       /\ result.terminal = row[4]

\* validation + PROCEED_WITH_CAUTION below the iteration limit went to deployed
C3_Witness ==
  /\ Returned("route_decision")
  /\ args.iteration < args.max_iterations
  /\ args.current_phase = "validation" /\ args.decision = "PROCEED_WITH_CAUTION"
  /\ result.next_phase = "deployed" /\ result.next_action = "manual"

\* C4: a record with no overfitting signal is abandoned whenever
\* sharpe_ratio < minimum_viable.sharpe_ratio, or max_drawdown >
\* minimum_viable.max_drawdown, or total_trades < minimum_viable.min_trades,
\* whatever the production_ready and optimization_worthy tiers say.
C4_MinimumViableGate ==
  (/\ Returned("evaluate_backtest")
   /\ ~HasOverfittingSignal(Perf, args.thresholds)
   /\ FailsMinimumViable(Perf, args.thresholds)) =>
    result.decision = "ABANDON_HYPOTHESIS"

\* a record that meets every production_ready condition has been abandoned by
\* the minimum-viable gate
C4_Witness ==
  /\ Returned("evaluate_backtest")
  /\ ~HasOverfittingSignal(Perf, args.thresholds)
  /\ FailsMinimumViable(Perf, args.thresholds)
  /\ IsProductionReady(Perf, args.thresholds)
  /\ result.decision = "ABANDON_HYPOTHESIS"

\* C5: for a record with no overfitting signal that passes the minimum-viable
\* gate, the decision is PROCEED_TO_VALIDATION if and only if sharpe, drawdown,
\* trades and win rate all meet the production_ready tier; the result is then
\* tagged tier 'production_ready' with skip_optimization = True.
C5_ProductionReady ==
  (/\ Returned("evaluate_backtest")
   /\ ~HasOverfittingSignal(Perf, args.thresholds)
   /\ ~FailsMinimumViable(Perf, args.thresholds)) =>
    /\ (result.decision = "PROCEED_TO_VALIDATION")
         <=> IsProductionReady(Perf, args.thresholds)
    /\ (result.decision = "PROCEED_TO_VALIDATION") =>
         (TierIs(result.details, "production_ready")
          /\ Flagged(result.details, "skip_optimization"))

\* a record exactly on every production_ready threshold went to validation
C5_Witness ==
  /\ Returned("evaluate_backtest")
  /\ Perf.sharpe_ratio = prod_sharpe(args.thresholds)
  /\ Perf.max_drawdown = prod_dd(args.thresholds)
  /\ Perf.total_trades = prod_trades(args.thresholds)
  /\ Perf.win_rate = prod_win_rate(args.thresholds)
  /\ result.decision = "PROCEED_TO_VALIDATION"
  /\ TierIs(result.details, "production_ready")

\* C6: for a record with no overfitting signal that passes the minimum-viable
\* gate and is not production-ready, the result is PROCEED_TO_OPTIMIZATION
\* tagged 'optimization_worthy' exactly when sharpe, drawdown and trades meet
\* the optimization_worthy tier.
C6_OptimizationWorthy ==
  (/\ Returned("evaluate_backtest")
   /\ ~HasOverfittingSignal(Perf, args.thresholds)
   /\ ~FailsMinimumViable(Perf, args.thresholds)
   /\ ~IsProductionReady(Perf, args.thresholds)) =>
    ((result.decision = "PROCEED_TO_OPTIMIZATION"
      /\ TierIs(result.details, "optimization_worthy"))
       <=> IsOptimizationWorthy(Perf, args.thresholds))

\* a record that is optimization-worthy but misses production_ready only on
\* the win rate was sent to optimization
C6_Witness ==
  /\ Returned("evaluate_backtest")
  /\ Ge(Perf.sharpe_ratio, prod_sharpe(args.thresholds))
  /\ Le(Perf.max_drawdown, prod_dd(args.thresholds))
  /\ Perf.total_trades >= prod_trades(args.thresholds)
  /\ Lt(Perf.win_rate, prod_win_rate(args.thresholds))
  /\ IsOptimizationWorthy(Perf, args.thresholds)
  /\ result.decision = "PROCEED_TO_OPTIMIZATION"
  /\ TierIs(result.details, "optimization_worthy")

\* the decision of the first matching rule of the validation evaluation,
\* in hundredths
ValidationRule(d, r) ==
  IF d > 40 THEN "ABANDON_HYPOTHESIS"
  ELSE IF r < 50 THEN "ABANDON_HYPOTHESIS"
  ELSE IF d < 15 /\ r > 75 THEN "DEPLOY_STRATEGY"
  ELSE IF d < 30 /\ r > 60 THEN "PROCEED_WITH_CAUTION"
  ELSE "ESCALATE_TO_HUMAN"

\* C7: evaluate_validation returns the decision of the first matching rule:
\* degradation > 0.40 -> ABANDON; robustness < 0.5 -> ABANDON; degradation <
\* 0.15 and robustness > 0.75 -> DEPLOY; degradation < 0.30 and robustness >
\* 0.60 -> CAUTION; otherwise ESCALATE.  degradation > 0.40 abandons for every
\* robustness, and the bounding values themselves trigger no rule.
C7_ValidationRules ==
  Returned("evaluate_validation") =>
    /\ result.decision = ValidationRule(args.degradation_pct, args.robustness_score)
    /\ args.degradation_pct > 40 => result.decision = "ABANDON_HYPOTHESIS"
    /\ (args.degradation_pct = 40 /\ args.robustness_score >= 50) =>
         result.decision # "ABANDON_HYPOTHESIS"
    /\ (args.degradation_pct <= 40 /\ args.robustness_score = 50) =>
         result.decision # "ABANDON_HYPOTHESIS"
    /\ (args.degradation_pct = 15 \/ args.robustness_score = 75) =>
         result.decision # "DEPLOY_STRATEGY"
    /\ (args.degradation_pct = 30 \/ args.robustness_score = 60) =>
         result.decision # "PROCEED_WITH_CAUTION"

\* degradation exactly 0.40 with a high robustness score was not abandoned
C7_Witness ==
  /\ Returned("evaluate_validation")
  /\ args.degradation_pct = 40 /\ args.robustness_score > 75
  /\ result.decision = "ESCALATE_TO_HUMAN"

\* C8: evaluate_optimization returns USE_BASELINE_PARAMS when improvement_pct
\* < 0.05 (flagged 'degraded' when improvement_pct < 0, 'minimal_improvement'
\* otherwise), ESCALATE_TO_HUMAN when improvement_pct > 0.30, and
\* PROCEED_TO_VALIDATION when 0.05 <= improvement_pct <= 0.30.
C8_OptimizationRules ==
  Returned("evaluate_optimization") =>
    LET i == args.improvement_pct IN
    /\ i < 5 => result.decision = "USE_BASELINE_PARAMS"
    /\ i < 0 => (Flagged(result.details, "degraded")
                 /\ ~Flagged(result.details, "minimal_improvement"))
    /\ (0 <= i /\ i < 5) => (Flagged(result.details, "minimal_improvement")
                             /\ ~Flagged(result.details, "degraded"))
    /\ i > 30 => result.decision = "ESCALATE_TO_HUMAN"
    /\ (5 <= i /\ i <= 30) => result.decision = "PROCEED_TO_VALIDATION"

\* an improvement of exactly 0.30 went to validation
C8_Witness ==
  /\ Returned("evaluate_optimization")
  /\ args.improvement_pct = 30
  /\ result.decision = "PROCEED_TO_VALIDATION"

\* the baseline Sharpe ratio the evaluate-optimization command reads from the
\* iteration state: 0 when the state has none
Baseline ==
  Get(Get(Get(args.iteration_state, "phase_results", EmptyDict), "backtest", EmptyDict),
      "sharpe_ratio", 0)

\* C9: in the optimization evaluation that takes a sensitivity score (the
\* evaluate-optimization command), a supplied parameter sensitivity above 0.5
\* gives PROCEED_WITH_ROBUST_PARAMS for every improvement.
C9_SensitivityOverrides ==
  (/\ Returned("cli_evaluate_optimization")
   /\ "parameter_sensitivity" \in DOMAIN args.opt_results
   /\ args.opt_results.parameter_sensitivity > 50) =>
    result.decision = "PROCEED_WITH_ROBUST_PARAMS"

\* a degraded optimization (best Sharpe below a positive baseline) with a
\* sensitivity above 0.5 got PROCEED_WITH_ROBUST_PARAMS
C9_Witness ==
  /\ Returned("cli_evaluate_optimization")
  /\ "parameter_sensitivity" \in DOMAIN args.opt_results
  /\ args.opt_results.parameter_sensitivity > 50
  /\ Baseline > 0
  /\ args.opt_results.best_sharpe < Baseline
  /\ result.decision = "PROCEED_WITH_ROBUST_PARAMS"

\* the decisions each phase's evaluator can output
EvaluatorOutputs ==
  ({"backtest"} \X {"ABANDON_HYPOTHESIS", "PROCEED_TO_OPTIMIZATION",
                    "PROCEED_TO_VALIDATION", "ESCALATE_TO_HUMAN"})
  \cup ({"optimization"} \X {"USE_BASELINE_PARAMS", "PROCEED_TO_VALIDATION",
                             "ESCALATE_TO_HUMAN", "PROCEED_WITH_ROBUST_PARAMS"})
  \cup ({"validation"} \X {"ABANDON_HYPOTHESIS", "DEPLOY_STRATEGY",
                           "PROCEED_WITH_CAUTION", "ESCALATE_TO_HUMAN"})

\* C10: every decision a phase's evaluator can output has a defined
\* transition in route_decision for that phase when iteration <
\* max_iterations: the router never answers such a pair with its
\* 'Unknown phase or decision' fallback.
C10_EveryOutputRouted ==
  (/\ Returned("route_decision")
   /\ args.iteration < args.max_iterations
   /\ <<args.current_phase, args.decision>> \in EvaluatorOutputs) =>
    result.rationale[1] # "Unknown phase '"

\* C11: the phases deployed and abandoned are terminal: when current_phase is
\* 'deployed' or 'abandoned', route_decision never returns a next_phase
\* different from current_phase, for every decision, iteration and
\* max_iterations.
C11_TerminalPhasesStay ==
  (Returned("route_decision") /\ args.current_phase \in {"deployed", "abandoned"}) =>
    result.next_phase = args.current_phase

\* a record with no overfitting signal whose drawdown and trade count pass the
\* minimum-viable gate
OthersPassMinimumViable(p, th) ==
  /\ ~HasOverfittingSignal(p, th)
  /\ Le(p.max_drawdown, max_dd_threshold(th))
  /\ p.total_trades >= min_trades(th)

\* C15: tier comparisons are inclusive at the threshold.  With the other
\* metrics passing and no overfitting signal, sharpe_ratio equal to
\* minimum_viable.sharpe_ratio is not abandoned for low Sharpe, and one unit
\* below is ABANDON_HYPOTHESIS; sharpe_ratio equal to the optimization_worthy
\* or production_ready sharpe_ratio meets that tier, and one unit below does
\* not.
C15_InclusiveThresholds ==
  Returned("evaluate_backtest") =>
    LET p == Perf
        th == args.thresholds
        s == p.sharpe_ratio
        passesGate == OthersPassMinimumViable(p, th) /\ Ge(s, min_sharpe(th))
        othersProd == /\ Le(p.max_drawdown, prod_dd(th))
                      /\ p.total_trades >= prod_trades(th)
                      /\ Ge(p.win_rate, prod_win_rate(th))
        othersOpt == Le(p.max_drawdown, opt_dd(th)) /\ p.total_trades >= opt_trades(th)
    IN  /\ (OthersPassMinimumViable(p, th) /\ s = min_sharpe(th)) =>
             /\ result.reason[1] # "Sharpe ratio below minimum viable ("
             /\ result.decision # "ABANDON_HYPOTHESIS"
        /\ (OthersPassMinimumViable(p, th) /\ s = min_sharpe(th) - 1) =>
             /\ result.decision = "ABANDON_HYPOTHESIS"
             /\ result.reason[1] = "Sharpe ratio below minimum viable ("
        /\ (passesGate /\ othersProd /\ s = prod_sharpe(th)) =>
             (result.decision = "PROCEED_TO_VALIDATION"
              /\ TierIs(result.details, "production_ready"))
        /\ (passesGate /\ othersProd /\ s = prod_sharpe(th) - 1) =>
             ~TierIs(result.details, "production_ready")
        /\ (passesGate /\ othersOpt /\ ~IsProductionReady(p, th) /\ s = opt_sharpe(th)) =>
             (result.decision = "PROCEED_TO_OPTIMIZATION"
              /\ TierIs(result.details, "optimization_worthy"))
        /\ (passesGate /\ othersOpt /\ s = opt_sharpe(th) - 1) =>
             ~TierIs(result.details, "optimization_worthy")

\* a Sharpe ratio exactly on the minimum-viable threshold, with drawdown and
\* trades passing, went on to optimization
C15_Witness ==
  /\ Returned("evaluate_backtest")
  /\ OthersPassMinimumViable(Perf, args.thresholds)
  /\ Perf.sharpe_ratio = min_sharpe(args.thresholds)
  /\ result.decision = "PROCEED_TO_OPTIMIZATION"

\* the order ABANDON_HYPOTHESIS < PROCEED_TO_OPTIMIZATION < PROCEED_TO_VALIDATION
DecisionRank(d) ==
  IF d = "ABANDON_HYPOTHESIS" THEN 0
  ELSE IF d = "PROCEED_TO_OPTIMIZATION" THEN 1
  ELSE 2

\* the record p with another Sharpe ratio
WithSharpe(p, s) == [p EXCEPT !.sharpe_ratio = s]

\* the Sharpe ratios of the model below s, and the largest of them
SharpeBelow(s, th) == {v \in SharpeValues(th) : Lt(v, s)}

PreviousSharpe(below) == CHOOSE v \in below : \A w \in below : w <= v

\* C16: evaluate_backtest is monotone in Sharpe: holding max_drawdown,
\* total_trades, win_rate and the thresholds fixed, for any two sharpe values
\* s1 <= s2 at which no overfitting signal fires, the decision for s2 is never
\* earlier than the decision for s1 in the order ABANDON_HYPOTHESIS <
\* PROCEED_TO_OPTIMIZATION < PROCEED_TO_VALIDATION.  Every record is compared
\* with the record at the next lower Sharpe ratio; the order being transitive
\* and a lower Sharpe ratio adding no overfitting signal, that is the claim
\* for every pair s1 <= s2.
C16_MonotoneInSharpe ==
  Returned("evaluate_backtest") =>
    LET p == Perf
        below == SharpeBelow(p.sharpe_ratio, args.thresholds)
        p1 == WithSharpe(p, PreviousSharpe(below))
    IN  (~HasOverfittingSignal(p, args.thresholds) /\ below # {}) =>
          /\ ~HasOverfittingSignal(p1, args.thresholds)
          /\ DecisionRank(evaluate_backtest(p1, args.thresholds).decision)
               <= DecisionRank(result.decision)

\* a record sent to validation that is abandoned at a lower Sharpe ratio and
\* sent to optimization at another one in between
C16_Witness ==
  /\ Returned("evaluate_backtest")
  /\ result.decision = "PROCEED_TO_VALIDATION"
  /\ \E s0, s1 \in SharpeValues(args.thresholds) :
       /\ Lt(s0, s1) /\ Lt(s1, Perf.sharpe_ratio)
       /\ evaluate_backtest(WithSharpe(Perf, s0), args.thresholds).decision
            = "ABANDON_HYPOTHESIS"
       /\ evaluate_backtest(WithSharpe(Perf, s1), args.thresholds).decision
            = "PROCEED_TO_OPTIMIZATION"

\* the result of the final return of evaluate_backtest
IsFallback(r) ==
  /\ r.decision = "ABANDON_HYPOTHESIS"
  /\ r.reason = <<"Performance does not meet criteria for proceeding">>

RoutedByTier(r) ==
  \/ TierIs(r.details, "production_ready")
  \/ TierIs(r.details, "optimization_worthy")
  \/ TierIs(r.details, "marginal")

C18_MarginalOnlyOnDrawdown ==
  (Returned("evaluate_backtest") /\ TierIs(result.details, "marginal")) =>
    Gt(Perf.max_drawdown, opt_dd(args.thresholds))

\* C18 as amended: evaluate_backtest returns PROCEED_TO_OPTIMIZATION tagged
\* tier 'marginal' exactly when no overfitting signal fires, sharpe_ratio >=
\* the minimum-viable Sharpe, total_trades >= the minimum-viable trade count,
\* max_drawdown is within the minimum-viable limit, and the record is neither
\* production-ready nor optimization-worthy: the optimization-worthy check may
\* have failed on Sharpe, on drawdown or on the trade count.
C18_MarginalWhenNotOptimizationWorthy ==
  Returned("evaluate_backtest") =>
    LET p == Perf
        th == args.thresholds
    IN  /\ TierIs(result.details, "marginal") <=>
             /\ ~HasOverfittingSignal(p, th)
             /\ Ge(p.sharpe_ratio, min_sharpe(th))
             /\ p.total_trades >= min_trades(th)
             /\ ~Gt(p.max_drawdown, max_dd_threshold(th))
             /\ ~IsProductionReady(p, th)
             /\ ~IsOptimizationWorthy(p, th)
        /\ TierIs(result.details, "marginal") =>
             result.decision = "PROCEED_TO_OPTIMIZATION"

\* a record within the optimization_worthy drawdown and trade count whose
\* Sharpe ratio is below the optimization_worthy one was tagged 'marginal'
C18_Witness ==
  /\ Returned("evaluate_backtest")
  /\ Le(Perf.max_drawdown, opt_dd(args.thresholds))
  /\ Perf.total_trades >= opt_trades(args.thresholds)
  /\ Lt(Perf.sharpe_ratio, opt_sharpe(args.thresholds))
  /\ result.decision = "PROCEED_TO_OPTIMIZATION"
  /\ TierIs(result.details, "marginal")

\* the thresholds mapping completed by the documented defaults: sharpe
\* 0.5/0.7/1.0, drawdown 0.40/0.35/0.30, min_trades 30/50/100 (minimum /
\* optimization / production tier), production win_rate 0.40,
\* too_perfect_sharpe 3.0, too_few_trades 20, win_rate_too_high 0.75
DocumentedDefaults ==
  [minimum_viable |-> [sharpe_ratio |-> 50, max_drawdown |-> 40, min_trades |-> 30],
   optimization_worthy |-> [sharpe_ratio |-> 70, max_drawdown |-> 35, min_trades |-> 50],
   production_ready |-> [sharpe_ratio |-> 100, max_drawdown |-> 30, min_trades |-> 100,
                         win_rate |-> 40],
   overfitting_signals |-> [too_perfect_sharpe |-> 300, too_few_trades |-> 20,
                            win_rate_too_high |-> 75]]

CompleteThresholds(th) ==
  [t \in DOMAIN DocumentedDefaults |->
     [k \in DOMAIN DocumentedDefaults[t] |->
        IF t \in DOMAIN th /\ k \in DOMAIN th[t] THEN th[t][k] ELSE DocumentedDefaults[t][k]]]

IsComplete(th) ==
  /\ DOMAIN th = DOMAIN DocumentedDefaults
  /\ \A t \in DOMAIN th : DOMAIN th[t] = DOMAIN DocumentedDefaults[t]

\* C14: evaluate_backtest is total over partial configuration: for every
\* thresholds mapping with missing tiers or missing keys it returns a decision
\* without raising, and that result equals the result obtained with the
\* mapping completed by the documented defaults; missing performance fields
\* are read as 0.
C14_TotalOverPartialConfiguration ==
  Returned("evaluate_backtest") =>
    /\ result.decision \in {"ABANDON_HYPOTHESIS", "PROCEED_TO_OPTIMIZATION",
                            "PROCEED_TO_VALIDATION", "ESCALATE_TO_HUMAN"}
    /\ ~IsComplete(args.thresholds) =>
         result = evaluate_backtest(args.performance, CompleteThresholds(args.thresholds))
    /\ DOMAIN args.performance # DOMAIN Perf =>
         result = evaluate_backtest(Perf, args.thresholds)

\* with no minimum_viable tier configured, a record whose drawdown is above
\* the other tiers' limits but within the default minimum-viable limit of 0.40
\* was not abandoned
C14_Witness ==
  /\ Returned("evaluate_backtest")
  /\ "minimum_viable" \notin DOMAIN args.thresholds
  /\ ~IsComplete(args.thresholds)
  /\ Gt(Perf.max_drawdown, prod_dd(args.thresholds))
  /\ Gt(Perf.max_drawdown, opt_dd(args.thresholds))
  /\ result.decision = "PROCEED_TO_OPTIMIZATION"

SensitivitySupplied ==
  /\ "parameter_sensitivity" \in DOMAIN args.opt_results
  /\ args.opt_results.parameter_sensitivity > 50

\* C19: a zero or negative baseline Sharpe is a defined edge case, not an
\* exception: the improvement is then 0 (no division takes place), so the
\* optimization evaluation yields USE_BASELINE_PARAMS whatever the optimized
\* Sharpe is, unless a sensitivity score above 0.5 is supplied.
C19_NonPositiveBaseline ==
  (Returned("cli_evaluate_optimization") /\ Baseline <= 0) =>
    /\ result.details.improvement.num = 0
    /\ result.details.improvement.den # 0
    /\ ~SensitivitySupplied => result.decision = "USE_BASELINE_PARAMS"
    /\ SensitivitySupplied => result.decision = "PROCEED_WITH_ROBUST_PARAMS"

\* a negative baseline with a much larger optimized Sharpe ratio and no
\* sensitivity score went back to the baseline parameters
C19_Witness ==
  /\ Returned("cli_evaluate_optimization")
  /\ Baseline < 0
  /\ args.opt_results.best_sharpe > 100
  /\ "parameter_sensitivity" \notin DOMAIN args.opt_results
  /\ result.decision = "USE_BASELINE_PARAMS"

\* a terminal result: next_phase deployed or abandoned
RunTerminal ==
  /\ fn = "workflow" /\ result # EmptyDict
  /\ result.next_phase \in {"deployed", "abandoned"}

\* a result that hands the run over to a human without ending it
RunHandedOver ==
  /\ fn = "workflow" /\ result # EmptyDict
  /\ result.next_action = "manual" /\ result.terminal = FALSE

\* C12 as stated: the iteration guard bounds the workflow loop: in a run that
\* starts at phase backtest with iteration 1 and repeatedly applies
\* route_decision to the decision produced for the current phase, a terminal
\* result (next_phase deployed or abandoned) is eventually reached for every
\* sequence of evaluator decisions.
C12_RunReachesTerminal == <>RunTerminal

\* C12 as amended: in such a run a terminal result is eventually reached for
\* every sequence of evaluator decisions in which the results that hand the
\* run over to a human (next_action 'manual', terminal False) do not recur
\* forever.
C12_RunReachesTerminalUnlessHandedOver == (<>RunTerminal) \/ ([]<>RunHandedOver)

\* a run that was handed over to a human on the way has reached a terminal result
C12_Witness ==
  /\ pc = "done" /\ RunTerminal
  /\ run.steps > 3
  /\ args.current_phase = "validation"
  /\ run.iteration < run.max_iterations

PollReturned == pc = "return" /\ fn \in {"wait_for_backtest", "wait_for_optimization"}

\* {success: False, error: '<Backtest|Optimization> timed out after <timeout>s'}
TimeoutError ==
  [success |-> FALSE,
   error |-> <<IF fn = "wait_for_backtest" THEN "Backtest" ELSE "Optimization",
               " timed out after ", args.timeout, "s">>]

\* the status the last read showed: the job completed, the job failed, the
\* read itself failed, or the job is still running
ReadStatus ==
  IF poll.read = NoRead THEN "none"
  ELSE IF ~Get(poll.read, "success", FALSE) THEN "read failed"
  ELSE IF fn = "wait_for_backtest" THEN
    LET backtest == Get(poll.read, "backtest", EmptyDict)
    IN  IF Get(backtest, "completed", FALSE) THEN "completed"
        ELSE IF Get(backtest, "error", <<>>) # <<>> THEN "failed"
        ELSE "running"
  ELSE
    LET status == Lower(Get(Get(poll.read, "optimization", EmptyDict), "status", ""))
    IN  IF status = "completed" THEN "completed"
        ELSE IF status \in {"error", "failed", "cancelled"} THEN "failed"
        ELSE "running"

PollTimedOut ==
  /\ result = TimeoutError
  /\ poll.now - poll.start_time > args.timeout
  /\ ReadStatus \in {"none", "running"}

PollCompleted == ReadStatus = "completed" /\ result = poll.read

PollFailed ==
  /\ ReadStatus \in {"failed", "read failed"}
  /\ result.success = FALSE
  /\ result # TimeoutError

\* C20: wait_for_backtest and wait_for_optimization never hang: if the job
\* never reaches a completed or failed status and every status read returns,
\* the call returns {success: False, error: '... timed out after <timeout>s'}
\* once the elapsed time exceeds timeout, and in every execution it returns
\* exactly one of: the completed result, an error result, or the timeout
\* error.
C20_NeverHangs ==
  /\ <>PollReturned
  /\ [](PollReturned => (PollTimedOut \/ PollCompleted \/ PollFailed))
  /\ []((PollReturned /\ ReadStatus \in {"none", "running"}) => PollTimedOut)

\* a call whose job was still running at the last status read has returned
\* the timeout error
C20_Witness ==
  /\ PollReturned
  /\ ReadStatus = "running"
  /\ args.timeout > 0
  /\ result = TimeoutError
  /\ poll.now - poll.start_time > args.timeout

\* C21: in every result of route_decision, terminal is True exactly when
\* next_phase is 'deployed' or 'abandoned', for every current_phase among the
\* seven workflow phases, every decision and every iteration.
C21_TerminalIffTerminalPhase ==
  Returned("route_decision") =>
    (result.terminal <=> result.next_phase \in {"deployed", "abandoned"})

\* the fixed tier sequence of evaluate_backtest
TierSequence ==
  <<"overfitting_signals", "minimum_viable", "production_ready", "optimization_worthy">>

\* the number of tiers entered before the decision on record p was taken
TiersChecked(p, th) ==
  IF HasOverfittingSignal(p, th) THEN 1
  ELSE IF FailsMinimumViable(p, th) THEN 2
  ELSE IF IsProductionReady(p, th) THEN 3
  ELSE 4

\* C22: every result of evaluate_backtest carries details.checks_performed
\* equal to a non-empty prefix of the tier sequence [overfitting_signals,
\* minimum_viable, production_ready, optimization_worthy], ending at the tier
\* in which the decision was taken (optimization_worthy for the marginal
\* tier), together with the five input metrics unchanged.
C22_ChecksPerformedPrefix ==
  Returned("evaluate_backtest") =>
    LET p == Perf
        d == result.details
    IN  /\ d.checks_performed = SubSeq(TierSequence, 1, TiersChecked(p, args.thresholds))
        /\ d.sharpe_ratio = p.sharpe_ratio
        /\ d.max_drawdown = p.max_drawdown
        /\ d.total_trades = p.total_trades
        /\ d.win_rate = p.win_rate
        /\ d.total_return = p.total_return

\* a marginal record: all four tiers were entered
C22_Witness ==
  /\ Returned("evaluate_backtest")
  /\ TierIs(result.details, "marginal")
  /\ Len(result.details.checks_performed) = 4
  /\ result.details.sharpe_ratio = args.performance.sharpe_ratio
  /\ args.performance.sharpe_ratio > 0

\* C23: a record with total_trades = 0 never triggers the too-few-trades
\* escalation: when sharpe_ratio <= too_perfect_sharpe and win_rate <=
\* win_rate_too_high, evaluate_backtest returns ABANDON_HYPOTHESIS for every
\* zero-trade record (with minimum_viable.min_trades > 0), not
\* ESCALATE_TO_HUMAN.
C23_ZeroTradesAbandon ==
  (/\ Returned("evaluate_backtest")
   /\ Perf.total_trades = 0
   /\ Le(Perf.sharpe_ratio, too_perfect_sharpe(args.thresholds))
   /\ Le(Perf.win_rate, win_rate_too_high(args.thresholds))
   /\ min_trades(args.thresholds) > 0) =>
    /\ result.decision = "ABANDON_HYPOTHESIS"
    /\ ~Flagged(result.details, "overfitting_detected")

\* a zero-trade record with a passing Sharpe ratio and drawdown was abandoned
\* for its trade count
C23_Witness ==
  /\ Returned("evaluate_backtest")
  /\ Perf.total_trades = 0
  /\ Ge(Perf.sharpe_ratio, min_sharpe(args.thresholds))
  /\ Le(Perf.max_drawdown, max_dd_threshold(args.thresholds))
  /\ too_few_trades(args.thresholds) > 0
  /\ result.decision = "ABANDON_HYPOTHESIS"
  /\ result.reason[1] = "Insufficient trades for statistical significance ("

\* the calls made on the api by the returned call
Called(name) == \E i \in DOMAIN result.calls : result.calls[i][1] = name

\* C24: the run-on-existing-project workflow fails fast on a collaborator
\* error: update_and_run_existing_project submits a backtest only after the
\* code upload succeeded; when the upload fails it returns that failure and
\* creates no backtest.
C24_UploadFailureFailsFast ==
  (/\ Returned("update_and_run_existing_project")
   /\ Called("upload_file")
   /\ ~Get(args.upload_result, "success", FALSE)) =>
    /\ result.value = args.upload_result
    /\ ~Called("create_backtest")

\* the thresholds mapping of decision_logic held by an iteration state
LogicThresholds(iteration_state) ==
  Upd(iteration_state.thresholds.performance_criteria,
      [overfitting_signals |-> iteration_state.thresholds.overfitting_signals])

\* C25: the two implementations of the evaluators agree: for the same
\* metrics and thresholds, the decision_cli command evaluate-backtest outputs
\* the same decision as the decision_logic function of the same name.
C25_CliAgreesWithLogic ==
  (Returned("cli_evaluate_backtest") /\ "status" \notin DOMAIN args.backtest_results) =>
    result.decision =
      evaluate_backtest(args.backtest_results,
                        LogicThresholds(args.iteration_state)).decision

\* the iteration counter after the caller applied the returned routing
AppliedIteration ==
  IF result.increment_iteration THEN args.iteration + 1 ELSE args.iteration

\* C26 as stated: in every result of route_decision, increment_iteration is
\* True exactly when next_phase is 'abandoned'.
C26_IncrementIffAbandoned ==
  Returned("route_decision") =>
    (result.increment_iteration <=> result.next_phase = "abandoned")

\* the call was made on a hypothesis already abandoned and below the limit
AlreadyAbandoned ==
  args.current_phase = "abandoned" /\ args.iteration < args.max_iterations

\* C26 amended: in every result of route_decision, increment_iteration is True
\* exactly when next_phase is 'abandoned', except for a call made in phase
\* 'abandoned' below the iteration limit, whose result stays in 'abandoned'
\* without incrementing; the iteration the caller derives from the result
\* never decreases and changes only on results that abandon the hypothesis.
C26_IncrementIffAbandons ==
  Returned("route_decision") =>
    /\ result.increment_iteration <=>
         (result.next_phase = "abandoned" /\ ~AlreadyAbandoned)
    /\ AlreadyAbandoned =>
         (result.next_phase = "abandoned" /\ ~result.increment_iteration)
    /\ AppliedIteration >= args.iteration
    /\ AppliedIteration # args.iteration => result.next_phase = "abandoned"

\* a backtest below the iteration limit was abandoned and the counter goes up
C26_Witness ==
  /\ Returned("route_decision")
  /\ args.current_phase = "backtest"
  /\ args.iteration < args.max_iterations
  /\ result.next_phase = "abandoned"
  /\ AppliedIteration = args.iteration + 1

\* the order backtest < optimization < validation < {deployed, abandoned}
PhaseRank(phase) ==
  IF phase = "backtest" THEN 0
  ELSE IF phase = "optimization" THEN 1
  ELSE IF phase = "validation" THEN 2
  ELSE IF phase \in {"deployed", "abandoned"} THEN 3
  ELSE 0 - 1

\* the run goes on by itself after routing r: r is neither manual nor terminal
Continues(r) == r.next_action # "manual" /\ ~r.terminal

\* the routing of the step after r, for decision d
NextRouting(r, d) ==
  route_decision(r.next_phase, d,
                 IF r.increment_iteration THEN args.iteration + 1 ELSE args.iteration,
                 args.max_iterations)

\* C27: route_decision never moves the workflow backward: for iteration <
\* max_iterations and current_phase in {backtest, optimization, validation},
\* next_phase never precedes current_phase in the order backtest <
\* optimization < validation < {deployed, abandoned}, and every result whose
\* next_action is not 'manual' moves to a strictly later phase, so a run of
\* non-manual routing steps from backtest ends in a terminal or manual result
\* within 3 steps.
C27_NeverBackward ==
  (/\ Returned("route_decision")
   /\ args.iteration < args.max_iterations
   /\ args.current_phase \in {"backtest", "optimization", "validation"}) =>
    /\ PhaseRank(result.next_phase) >= PhaseRank(args.current_phase)
    /\ result.next_action # "manual" =>
         PhaseRank(result.next_phase) > PhaseRank(args.current_phase)
    /\ (args.current_phase = "backtest" /\ Continues(result)) =>
         \A d2, d3 \in Decisions :
           Continues(NextRouting(result, d2)) =>
             ~Continues(NextRouting(NextRouting(result, d2), d3))

\* a run from backtest through optimization and validation that ends with
\* its third routing step
C27_Witness ==
  /\ Returned("route_decision")
  /\ args.iteration < args.max_iterations
  /\ args.current_phase = "backtest"
  /\ result.next_phase = "optimization"
  /\ Continues(result)
  /\ \E d2, d3 \in Decisions :
       /\ Continues(NextRouting(result, d2))
       /\ NextRouting(result, d2).next_phase = "validation"
       /\ NextRouting(NextRouting(result, d2), d3).terminal

\* the metrics handed to evaluate_validation are those the validation run
\* computes from the two Sharpe ratios
DerivedByRun ==
  /\ args.degradation_pct = qc_degradation_pct(args.train_sharpe, args.test_sharpe)
  /\ args.robustness_score = qc_robustness_score(args.train_sharpe, args.test_sharpe)

\* C28: when degradation_pct and robustness_score are derived from the
\* in-sample and out-of-sample Sharpe as the validation CLI computes them,
\* evaluate_validation returns DEPLOY_STRATEGY only if the out-of-sample
\* Sharpe is positive; a strategy with negative in-sample and out-of-sample
\* Sharpe is never deployed.
C28_DeployOnlyPositiveOutOfSample ==
  (/\ Returned("evaluate_validation")
   /\ DerivedByRun
   /\ result.decision = "DEPLOY_STRATEGY") =>
    args.test_sharpe > 0

\* the error of the backtest in the last status read (empty when none)
ReadBacktestError ==
  IF poll.read = NoRead THEN <<>>
  ELSE Get(Get(poll.read, "backtest", EmptyDict), "error", <<>>)

\* C29: a backtest error is never reported as success by the polling loop:
\* whenever the status read inside wait_for_backtest carries a non-empty
\* backtest error, the value returned by wait_for_backtest has success =
\* False, also when the same read marks the backtest completed.
C29_ErrorNeverSuccess ==
  (/\ pc = "return"
   /\ fn = "wait_for_backtest"
   /\ ReadBacktestError # <<>>) =>
    result.success = FALSE

\* the decisions the route command knows for a phase
CliKnownDecisions(phase) ==
  IF phase = "backtest" THEN
    {"PROCEED_TO_OPTIMIZATION", "PROCEED_TO_VALIDATION", "ABANDON_HYPOTHESIS",
     "ESCALATE_TO_HUMAN"}
  ELSE IF phase = "optimization" THEN
    {"PROCEED_TO_VALIDATION", "USE_BASELINE_PARAMS", "PROCEED_WITH_ROBUST_PARAMS",
     "ESCALATE_TO_HUMAN"}
  ELSE
    {"DEPLOY_STRATEGY", "PROCEED_WITH_CAUTION", "ABANDON_HYPOTHESIS", "ESCALATE_TO_HUMAN"}

\* C30: the decision CLI route command rejects a decision that is not valid
\* for the given phase in both output modes: it reports the error and exits
\* with non-zero status, never exiting with status 0 on an unknown
\* phase/decision pair and never emitting a routing result that names a next
\* phase for it.
C30_UnknownDecisionRejected ==
  (Returned("cli_route") /\ args.decision \notin CliKnownDecisions(args.phase)) =>
    /\ "error" \in DOMAIN result.routing
    /\ "next_phase" \notin DOMAIN result.routing
    /\ result.exit_status # 0

====
